---------------------------- MODULE Spec2Model ----------------------------
(***************************************************************************)
(* A model of the section/markup pipeline of `brief`:                      *)
(*   parser.CreateBrf            (src/parser/brf.go)                       *)
(*   TexCommand.convertMarkup, getSingleValue, trimSurroundingEmptyLines,  *)
(*   merge, TexCommand.run, TexCommand.contentToTemplateInput              *)
(*                               (src/unnamed/part_001)                    *)
(*   markup.NewConverter, Converter.Convert (src/unnamed/part_002)         *)
(*   cmdline.Parser.Parse, cmdline.Execute  (src/config/config.go)         *)
(*   address.ReadFromFile        (src/address/parser.go)                   *)
(*                                                                         *)
(* A Go string is modelled as a sequence of one-character strings, a       *)
(* []string as a sequence of such sequences, a map as a function whose     *)
(* DOMAIN is its key set.  Slice indexes are kept 0-based as in the code.  *)
(***************************************************************************)
EXTENDS Integers, Sequences, FiniteSets, TLC

VARIABLES
    \* parser.CreateBrf
    brfLines,       \* the argument of CreateBrf
    brf,            \* the returned Brf: [Lines, Sections]
    pcBrf           \* "ready" | "done"

brfVars == <<brfLines, brf, pcBrf>>

VARIABLES
    \* trimSurroundingEmptyLines and getSingleValue
    lines,          \* the BrfLines argument
    trimmed,        \* what trimSurroundingEmptyLines(lines) did: [panic, val]
    single,         \* what getSingleValue(lines) did: [panic, val, err]
    pcTrim          \* "ready" | "trimmed" | "single"

trimVars == <<lines, trimmed, single, pcTrim>>

VARIABLES
    \* merge
    m1, m2,         \* the arguments of merge
    m,              \* the returned map
    pcMerge         \* "ready" | "done"

mergeVars == <<m1, m2, m, pcMerge>>

VARIABLES
    \* TexCommand.run, lines 95-97
    senderInput,    \* senderToTemplateInput(senderAddresses[fromAddress])
    contentInput,   \* c.contentToTemplateInput(brf)
    mergedInput,    \* the rendering context handed to tmpl.Execute
    pcRun           \* "inputs" | "merged"

runVars == <<senderInput, contentInput, mergedInput, pcRun>>

VARIABLES
    \* TexCommand.convertMarkup
    MarkupConverters, \* c.Config.MarkupConverters: markup type -> command line
    a,              \* the argument: the lines of the section
    i,              \* the index of the for loop
    b,              \* the strings.Builder, as the pieces written to it in
                    \* order: [from, text], from = the index in a of the line
                    \* the text is, FromSep for a separator, FromConverter
                    \* for converter output
    blocks,         \* history: what was done at each block start line:
                    \* [i, blockEnd, outcome, called, lines, at], at = the
                    \* number of pieces in b when the block was reached
    out,            \* the returned string
    pcMarkup        \* "call" | "loop" | "done" | "panic"

markupVars == <<MarkupConverters, a, i, b, blocks, out, pcMarkup>>

VARIABLES
    \* markup.NewConverter followed by Converter.Convert
    cfgConverters,  \* cfg.MarkupConverters: markup type -> command line
    reqMarkupType,  \* the markupType argument of NewConverter
    mc,             \* what NewConverter returned: [err, markupType, converterCmd]
    converted,      \* what mc.Convert returned: [text, err]
    pcGateway       \* "ready" | "created" | "noconverter" | "returned" | "panic"

gatewayVars == <<cfgConverters, reqMarkupType, mc, converted, pcGateway>>

VARIABLES
    \* TexCommand.contentToTemplateInput; its call of convertMarkup runs
    \* on the variables of convertMarkup above
    brfSections,    \* brf.Sections: section name -> lines
    visited,        \* history: the keys the range loop has taken up, in order
    rContent,       \* r, the map being built and returned
    rawContent,     \* history: r[k] as it was before utfCharReplacer.Replace
    wholeCalls,     \* history: the calls mc.Convert(v[1:]) of line 161:
                    \* [markupType, lines, outcome]
    pcContent       \* "range" | "mixed" | "done" | "panic"

contentVars ==
    <<brfSections, visited, rContent, rawContent, wholeCalls, pcContent>>

VARIABLES
    \* address.ReadFromFile
    fileLines,      \* the lines of the address file, as scanner.Text() gives them
    readResult,     \* what ReadFromFile returned: [err, val], val = <<>> for
                    \* a nil map, <<map>> for a map
    pcAddress       \* "ready" | "done"

addressVars == <<fileLines, readResult, pcAddress>>

VARIABLES
    \* cmdline.Parser.Parse
    parseS,         \* the command line given to Parse
    parseCmds,      \* the []Cmd Parse returned
    pcParse         \* "ready" | "done"

parseVars == <<parseS, parseCmds, pcParse>>

VARIABLES
    \* cmdline.Execute
    cwd,            \* the working directory of the process
    cwdBefore,      \* the working directory when Execute was called
    workingDir,     \* the workingDir argument, "" for none
    execCmdLine,    \* the cmdLine argument
    curWorkingDir,  \* what os.Getwd() returned
    deferred,       \* the deferred function is registered
    chdirBackErr,   \* the deferred os.Chdir(curWorkingDir) returned an error
    externalRuns,   \* how many times external commands were started
    execResult,     \* "none" | "nil" | "error" | "panic"
    pcExec          \* "entry" | "chdir" | "run" | "return" | "done"

execVars ==
    <<cwd, cwdBefore, workingDir, execCmdLine, curWorkingDir, deferred,
      chdirBackErr, externalRuns, execResult, pcExec>>

VARIABLES
    \* PdfCommand.run, PreviewCommand.run
    topCmd,             \* the command the user called: "pdf" | "preview"
    brfTime,            \* modification time of the .brf file, NoFile if missing
    texTime,            \* modification time of the .tex file
    pdfTime,            \* modification time of the .pdf file
    texTimeBefore,      \* texTime when the command was called
    pdfTimeBefore,      \* pdfTime when the command was called
    pdfCommandSet,      \* c.Config.PdfCommand != ""
    previewCommandSet,  \* c.Config.PreviewCommand != ""
    stages,             \* the stages run so far: [stage, ok]
    buildResult,        \* "none" | "nil" | "error" | "panic"
    pcBuild             \* "preview" | "pdf" | "tex" | "pdfExec" | "previewExec" | "done"

buildVars ==
    <<topCmd, brfTime, texTime, pdfTime, texTimeBefore, pdfTimeBefore,
      pdfCommandSet, previewCommandSet, stages, buildResult, pcBuild>>

VARIABLES
    \* TexCommand.run: the files it reads and the file it writes
    docReadable,        \* parser.ReadBrfFile can read c.brfFile
    templateSection,    \* brf.Sections["TEMPLATE"]
    fromSection,        \* brf.Sections["FROM"]
    templateReadable,   \* template.ParseFiles can read and parse the template
    senderListReadable, \* the file c.Config.SenderList can be opened and read
    senderList,         \* the lines of that file
    outFile,            \* the .tex file: "absent" | "old" | "empty" | "partial" | "written"
    outFileBefore,      \* the .tex file when run was called
    ctxBuilt,           \* mergedInput has been built
    texResult,          \* "none" | "nil" | "error" | "panic"
    pcTex               \* the statement run is at

texVars ==
    <<docReadable, templateSection, fromSection, templateReadable,
      senderListReadable, senderList, outFile, outFileBefore, ctxBuilt,
      texResult, pcTex>>

\* the components of the document pipeline
coreVars ==
    <<brfVars, trimVars, mergeVars, runVars, markupVars, gatewayVars,
      contentVars, addressVars>>

\* the components around it: command lines and commands
toolVars == <<parseVars, execVars, buildVars, texVars>>

vars == <<coreVars, toolVars>>

-----------------------------------------------------------------------------
(* Bounds of the model *)

\* longest CONTENT section given to contentToTemplateInput
MaxContentLines == 3

\* latest modification time of a file that exists before the command runs
MaxTime == 2

\* longest command line given to Parse
MaxCmdLineLen == 4

\* longest address file given to ReadFromFile
MaxFileLines == 4

\* longest line sequence given to CreateBrf
MaxBrfLines == 4

\* longest line sequence given to trimSurroundingEmptyLines / getSingleValue
MaxTrimLines == 5

\* longest line sequence given to convertMarkup
MaxMarkupLines == 5

-----------------------------------------------------------------------------
(* Strings and character classes *)

\* [A-Z]
UpperChars ==
    {"A", "B", "C", "D", "E", "F", "G", "H", "I", "J", "K", "L", "M",
     "N", "O", "P", "Q", "R", "S", "T", "U", "V", "W", "X", "Y", "Z"}

\* [a-z]
LowerChars ==
    {"a", "b", "c", "d", "e", "f", "g", "h", "i", "j", "k", "l", "m",
     "n", "o", "p", "q", "r", "s", "t", "u", "v", "w", "x", "y", "z"}

\* \s of Go's regexp (RE2): [\t\n\f\r ]
ReSpace == {" ", "\t", "\n", "\f", "\r"}

\* the length of the longest run of characters of class cls in s that
\* starts at (1-based) position from
RECURSIVE RunLen(_, _, _)
RunLen(s, from, cls) ==
    IF from <= Len(s) /\ s[from] \in cls
    THEN 1 + RunLen(s, from + 1, cls)
    ELSE 0

\* the same, backwards from (1-based) position from
RECURSIVE RunLenBack(_, _, _)
RunLenBack(s, from, cls) ==
    IF from >= 1 /\ s[from] \in cls
    THEN 1 + RunLenBack(s, from - 1, cls)
    ELSE 0

\* the white space strings.TrimSpace removes (of Go's set, the characters a
\* TLA+ string can hold; \v, U+0085 and U+00A0 are left out)
GoSpace == {" ", "\t", "\n", "\f", "\r"}

\* strings.TrimSpace
TrimSpace(s) ==
    LET lead == RunLen(s, 1, GoSpace)
    IN  IF lead = Len(s)
        THEN <<>>
        ELSE SubSeq(s, lead + 1, Len(s) - RunLenBack(s, Len(s), GoSpace))

\* Go's s[lo:hi] of a slice or string (0-based, hi exclusive)
Slice(s, lo, hi) == SubSeq(s, lo + 1, hi)

\* the bounds check Go does for s[lo:hi]
SliceInRange(s, lo, hi) == 0 <= lo /\ lo <= hi /\ hi <= Len(s)

\* a faulty variant of MapPut: an existing entry is kept
MapPut_KeepFirst(mp, k, v) ==
    [x \in (DOMAIN mp) \cup {k} |-> IF x \in DOMAIN mp THEN mp[x] ELSE v]

\* a Go map with an entry put
MapPut(mp, k, v) ==
    [x \in (DOMAIN mp) \cup {k} |-> IF x = k THEN v ELSE mp[x]]

\* all sequences over S of length at most n
SeqsUpTo(S, n) == UNION {[1..k -> S] : k \in 0..n}

-----------------------------------------------------------------------------
(* parser.CreateBrf *)

\* a faulty variant of SectionIdMatch: lower-case names match as well
SectionIdMatch_AnyCase(line) ==
    LET k == RunLen(line, 2, UpperChars \cup LowerChars)
    IN  IF /\ Len(line) >= 2
           /\ line[1] = "."
           /\ k >= 1
           /\ \A j \in (2 + k)..Len(line) : line[j] \in ReSpace
        THEN <<SubSeq(line, 2, 1 + k)>>
        ELSE <<>>

\* patternSectionId: ^\.([A-Z]+)\s*$ ; the submatch as <<name>>, or <<>> (nil)
SectionIdMatch(line) ==
    LET k == RunLen(line, 2, UpperChars)
    IN  IF /\ Len(line) >= 2
           /\ line[1] = "."
           /\ k >= 1
           /\ \A j \in (2 + k)..Len(line) : line[j] \in ReSpace
        THEN <<SubSeq(line, 2, 1 + k)>>
        ELSE <<>>

\* a faulty variant of SectionLines: the range starts at the marker line
SectionLines_FromMarker(ls, currentSectionStart, end) ==
    Slice(ls, currentSectionStart, end)

\* the content of a section: brfLines[currentSectionStart+1 : end]
SectionLines(ls, currentSectionStart, end) ==
    Slice(ls, currentSectionStart + 1, end)

\* the for loop of CreateBrf from index idx on, and the close of the last
\* section after it.  currentSection is <<>> (nil) or <<name>>.
RECURSIVE CreateBrfLoop(_, _, _, _, _)
CreateBrfLoop(ls, idx, sections, currentSection, currentSectionStart) ==
    IF idx >= Len(ls)
    THEN IF currentSection # <<>>
         THEN MapPut(sections, currentSection[1],
                     SectionLines(ls, currentSectionStart, Len(ls)))
         ELSE sections
    ELSE LET sectionIdMatch == SectionIdMatch(ls[idx + 1])
         IN  IF sectionIdMatch # <<>>
             THEN CreateBrfLoop(
                     ls, idx + 1,
                     IF currentSection # <<>>
                     THEN MapPut(sections, currentSection[1],
                                 SectionLines(ls, currentSectionStart, idx))
                     ELSE sections,
                     sectionIdMatch, idx)
             ELSE CreateBrfLoop(ls, idx + 1, sections,
                                currentSection, currentSectionStart)

\* NewBrf: the lines and an empty section map
NewBrf(ls) == [Lines |-> ls, Sections |-> <<>>]

CreateBrf(ls) ==
    [NewBrf(ls) EXCEPT
        !.Sections = CreateBrfLoop(ls, 0, NewBrf(ls).Sections, <<>>, -1)]

\* lines of a .brf file the model draws from
BrfLinePool ==
    { <<".", "A">>, <<".", "B">>, <<".", "A", " ">>,
      <<"x">>, <<>>, <<".", "a">> }

BrfInit ==
    /\ brfLines \in SeqsUpTo(BrfLinePool, MaxBrfLines)
    /\ brf = NewBrf(<<>>)
    /\ pcBrf = "ready"

BrfIdle ==
    /\ brfLines = <<>>
    /\ brf = NewBrf(<<>>)
    /\ pcBrf = "idle"

\* brf = CreateBrf(brfLines)
CallCreateBrf ==
    /\ pcBrf = "ready"
    /\ brf' = CreateBrf(brfLines)
    /\ pcBrf' = "done"
    /\ UNCHANGED brfLines

-----------------------------------------------------------------------------
(* trimSurroundingEmptyLines, getSingleValue *)

\* the for loop of trimSurroundingEmptyLines from index idx on:
\* <<firstNonEmpty, lastNonEmpty>>
RECURSIVE TrimLoop(_, _, _, _)
TrimLoop(ls, idx, firstNonEmpty, lastNonEmpty) ==
    IF idx >= Len(ls)
    THEN <<firstNonEmpty, lastNonEmpty>>
    ELSE IF TrimSpace(ls[idx + 1]) # <<>>
         THEN TrimLoop(ls, idx + 1,
                       IF firstNonEmpty = -1 THEN idx ELSE firstNonEmpty, idx)
         ELSE TrimLoop(ls, idx + 1, firstNonEmpty, lastNonEmpty)

\* the slice expression the function returns: low and high index
TrimBounds(ls) ==
    LET fl == TrimLoop(ls, 0, -1, -1)
    IN  <<fl[1], fl[2] + 1>>

\* trimSurroundingEmptyLines: brfLines[firstNonEmpty : lastNonEmpty+1], which
\* panics (slice bounds out of range) when the bounds check fails
trimSurroundingEmptyLines(ls) ==
    LET bnd == TrimBounds(ls)
    IN  IF SliceInRange(ls, bnd[1], bnd[2])
        THEN [panic |-> FALSE, val |-> Slice(ls, bnd[1], bnd[2])]
        ELSE [panic |-> TRUE, val |-> <<>>]

ErrNone == "nil"
ErrNoLine == "No line with content found"
ErrMoreThanOne == "More than one line with content found"

\* a faulty variant of SingleLineValue: the line as it is
SingleLineValue_Untrimmed(line) == line

\* the value getSingleValue returns for the one line left
SingleLineValue(line) == TrimSpace(line)

\* getSingleValue; a panic of trimSurroundingEmptyLines unwinds through it
getSingleValue(ls) ==
    LET t == trimSurroundingEmptyLines(ls)
    IN  IF t.panic
        THEN [panic |-> TRUE, val |-> <<>>, err |-> ErrNone]
        ELSE IF Len(t.val) = 0
        THEN [panic |-> FALSE, val |-> <<>>, err |-> ErrNoLine]
        ELSE IF Len(t.val) > 1
        THEN [panic |-> FALSE, val |-> <<>>, err |-> ErrMoreThanOne]
        ELSE [panic |-> FALSE, val |-> SingleLineValue(t.val[1]), err |-> ErrNone]

\* lines of a section the model draws from
TrimLinePool ==
    { <<>>, <<" ", "\t">>, <<"x">>, <<" ", "y", " ">> }

NoTrimmed == [panic |-> FALSE, val |-> <<>>]
NoSingle == [panic |-> FALSE, val |-> <<>>, err |-> ErrNone]

TrimInit ==
    /\ lines \in SeqsUpTo(TrimLinePool, MaxTrimLines)
    /\ trimmed = NoTrimmed
    /\ single = NoSingle
    /\ pcTrim = "ready"

TrimIdle ==
    /\ lines = <<>>
    /\ trimmed = NoTrimmed
    /\ single = NoSingle
    /\ pcTrim = "idle"

\* trimmed = trimSurroundingEmptyLines(lines)
CallTrim ==
    /\ pcTrim = "ready"
    /\ trimmed' = trimSurroundingEmptyLines(lines)
    /\ pcTrim' = "trimmed"
    /\ UNCHANGED <<lines, single>>

\* single = getSingleValue(lines)
CallGetSingleValue ==
    /\ pcTrim = "ready"
    /\ single' = getSingleValue(lines)
    /\ pcTrim' = "single"
    /\ UNCHANGED <<lines, trimmed>>

-----------------------------------------------------------------------------
(* merge *)

\* a faulty variant of MergeValue: the first map wins
MergeValue_FirstWins(a1, a2, k) == IF k \in DOMAIN a1 THEN a1[k] ELSE a2[k]

\* the value of key k in the map merge returns: the second loop runs after
\* the first and overwrites
MergeValue(a1, a2, k) == IF k \in DOMAIN a2 THEN a2[k] ELSE a1[k]

merge(a1, a2) ==
    [k \in (DOMAIN a1) \cup (DOMAIN a2) |-> MergeValue(a1, a2, k)]

\* all maps from a subset of K to V
MapsOver(K, V) == UNION {[D -> V] : D \in SUBSET K}

MergeKeys == {"a", "b", "c"}
MergeValues == {"1", "2", "3", "4"}

MergeInit ==
    /\ m1 \in MapsOver(MergeKeys, MergeValues)
    /\ m2 \in MapsOver(MergeKeys, MergeValues)
    /\ m = <<>>
    /\ pcMerge = "ready"

MergeIdle ==
    /\ m1 = <<>>
    /\ m2 = <<>>
    /\ m = <<>>
    /\ pcMerge = "idle"

\* m = merge(m1, m2); the arguments are Go maps passed by reference, which
\* merge only ranges over
CallMerge ==
    /\ pcMerge = "ready"
    /\ m' = merge(m1, m2)
    /\ pcMerge' = "done"
    /\ UNCHANGED <<m1, m2>>

-----------------------------------------------------------------------------
(* TexCommand.run: the rendering context *)

\* a faulty variant of RunMergedInput: the arguments of merge swapped
RunMergedInput_Swapped(content, sender) ==
    [k \in (DOMAIN content) \cup (DOMAIN sender) |->
        IF k \in DOMAIN content THEN content[k] ELSE sender[k]]

\* mergedInput := merge(contentInput, senderInput)
RunMergedInput(content, sender) == merge(content, sender)

\* section names are keys of contentInput, address field names of senderInput
ContentKeys == {"FROM", "CONTENT"}
SenderKeys == {"FROM", "name"}
InputValues == {"v", "w", "z"}

RunInit ==
    /\ senderInput \in MapsOver(SenderKeys, InputValues)
    /\ contentInput \in MapsOver(ContentKeys, InputValues)
    /\ mergedInput = <<>>
    /\ pcRun = "inputs"

RunIdle ==
    /\ senderInput = <<>>
    /\ contentInput = <<>>
    /\ mergedInput = <<>>
    /\ pcRun = "idle"

RunMerge ==
    /\ pcRun = "inputs"
    /\ mergedInput' = RunMergedInput(contentInput, senderInput)
    /\ pcRun' = "merged"
    /\ UNCHANGED <<senderInput, contentInput>>

-----------------------------------------------------------------------------
(* markup.NewConverter, Converter.Convert *)

\* strings.ReplaceAll(s, old, new) for a non-empty old: the non-overlapping
\* occurrences of old, left to right
RECURSIVE ReplaceAll(_, _, _)
ReplaceAll(s, old, new) ==
    IF Len(s) < Len(old)
    THEN s
    ELSE IF SubSeq(s, 1, Len(old)) = old
    THEN new \o ReplaceAll(SubSeq(s, Len(old) + 1, Len(s)), old, new)
    ELSE <<s[1]>> \o ReplaceAll(Tail(s), old, new)

\* cfg.MarkupConverters[key]: the empty string for a key the map lacks
ConverterCmdOf(converters, key) ==
    IF key \in DOMAIN converters THEN converters[key] ELSE <<>>

Wildcard == <<"*">>
Placeholder == <<"%", "m">>

\* a faulty variant of NewConverter: the wildcard entry is looked up first
NewConverter_WildcardFirst(markupType, converters) ==
    IF ConverterCmdOf(converters, Wildcard) # <<>>
    THEN [err |-> FALSE, markupType |-> markupType,
          converterCmd |->
              ReplaceAll(ConverterCmdOf(converters, Wildcard), Placeholder, markupType)]
    ELSE IF ConverterCmdOf(converters, markupType) # <<>>
    THEN [err |-> FALSE, markupType |-> markupType,
          converterCmd |-> ConverterCmdOf(converters, markupType)]
    ELSE [err |-> TRUE, markupType |-> markupType, converterCmd |-> <<>>]

\* NewConverter: [err, markupType, converterCmd]
NewConverter(markupType, converters) ==
    IF ConverterCmdOf(converters, markupType) # <<>>
    THEN [err |-> FALSE, markupType |-> markupType,
          converterCmd |-> ConverterCmdOf(converters, markupType)]
    ELSE IF ConverterCmdOf(converters, Wildcard) # <<>>
    THEN [err |-> FALSE, markupType |-> markupType,
          converterCmd |->
              ReplaceAll(ConverterCmdOf(converters, Wildcard), Placeholder, markupType)]
    ELSE [err |-> TRUE, markupType |-> markupType, converterCmd |-> <<>>]

\* Convert refuses a blank command before it executes anything
ConvertRefuses(converter) == Len(TrimSpace(converter.converterCmd)) = 0

\* what the external command may write to stdout
ConvertedTexts == { <<"T">>, <<>> }

\* cmdline.newCmd: the first token is the command name, the others its
\* arguments
newCmd(tokens) ==
    [CmdName |-> IF Len(tokens) > 0 THEN tokens[1] ELSE <<>>,
     Args    |-> IF Len(tokens) > 1 THEN Tail(tokens) ELSE <<>>]

QuoteChars == {"'", "\""}
NoQuote == ""

\* the for loop of Parser.Parse from the character at idx (0-based) on, and
\* the flush of the last word and the last command after it
RECURSIVE ParseLoop(_, _, _, _, _, _)
ParseLoop(s, idx, cmds, tokens, word, quoteChar) ==
    IF idx >= Len(s)
    THEN LET lastTokens == IF Len(word) > 0 THEN Append(tokens, word) ELSE tokens
         IN  IF Len(lastTokens) > 0
             THEN Append(cmds, newCmd(lastTokens))
             ELSE cmds
    ELSE LET c == s[idx + 1]
         IN  IF c \in QuoteChars
             THEN ParseLoop(s, idx + 1, cmds, tokens, word,
                            IF quoteChar = c THEN NoQuote ELSE c)
             ELSE IF c \in {" ", "\t"}
             THEN IF quoteChar # NoQuote
                  THEN ParseLoop(s, idx + 1, cmds, tokens, Append(word, c), quoteChar)
                  ELSE IF Len(word) > 0
                  THEN ParseLoop(s, idx + 1, cmds, Append(tokens, word), <<>>, quoteChar)
                  ELSE ParseLoop(s, idx + 1, cmds, tokens, word, quoteChar)
             ELSE IF c = "|"
             THEN IF quoteChar # NoQuote
                  THEN ParseLoop(s, idx + 1, cmds, tokens, Append(word, c), quoteChar)
                  ELSE ParseLoop(s, idx + 1, Append(cmds, newCmd(tokens)), <<>>,
                                 word, quoteChar)
             ELSE ParseLoop(s, idx + 1, cmds, tokens, Append(word, c), quoteChar)

\* Parser.Parse: the commands of a command line
Parse(s) == ParseLoop(s, 0, <<>>, <<>>, <<>>, NoQuote)

\* Execute indexes commands[0] and commands[len(commands)-1]
\* unconditionally: an index out of range when Parse gave no command
ExecutePanics(cmdLine) == Len(Parse(cmdLine)) = 0

\* exec.Command with an empty name cannot be started
ExecuteCannotStart(cmdLine) ==
    \E j \in 1..Len(Parse(cmdLine)) : Parse(cmdLine)[j].CmdName = <<>>

\* command lines and markup types the gateway model draws from
CmdQuotes == <<"'", "'">>
CmdTwice == <<"%", "m", " ", "%", "m">>
CmdPipe == <<"c", "|">>
CmdC == <<"c">>
CmdWild == <<"p", " ", "%", "m">>
CmdBlank == <<" ">>
MarkupType_m == <<"m">>
MarkupType_ab == <<"a", "b">>
GatewayCmdPool == { <<>>, CmdC, CmdBlank, CmdQuotes, CmdWild, CmdTwice, CmdPipe }
GatewayKeys == { MarkupType_m, MarkupType_ab, Wildcard }
GatewayRegistries ==
    UNION { [K -> GatewayCmdPool] : K \in SUBSET GatewayKeys }

NoConverter == [err |-> TRUE, markupType |-> <<>>, converterCmd |-> <<>>]
NotConverted == [text |-> <<>>, err |-> FALSE]

GatewayInit ==
    /\ cfgConverters \in GatewayRegistries
    /\ reqMarkupType \in {MarkupType_m, MarkupType_ab}
    /\ mc = NoConverter
    /\ converted = NotConverted
    /\ pcGateway = "ready"

GatewayIdle ==
    /\ cfgConverters = <<>>
    /\ reqMarkupType = <<>>
    /\ mc = NoConverter
    /\ converted = NotConverted
    /\ pcGateway = "idle"

\* mc, err := markup.NewConverter(reqMarkupType, cfg)
CallNewConverter ==
    /\ pcGateway = "ready"
    /\ mc' = NewConverter(reqMarkupType, cfgConverters)
    /\ pcGateway' = IF mc'.err THEN "noconverter" ELSE "created"
    /\ UNCHANGED <<cfgConverters, reqMarkupType, converted>>

\* mc.Convert: a blank command line is refused with an error
ConvertRefused ==
    /\ pcGateway = "created"
    /\ ConvertRefuses(mc)
    /\ converted' = [text |-> <<>>, err |-> TRUE]
    /\ pcGateway' = "returned"
    /\ UNCHANGED <<cfgConverters, reqMarkupType, mc>>

\* mc.Convert: Execute panics on a command line without commands
ConvertExecutePanics ==
    /\ pcGateway = "created"
    /\ ~ConvertRefuses(mc)
    /\ ExecutePanics(mc.converterCmd)
    /\ pcGateway' = "panic"
    /\ UNCHANGED <<cfgConverters, reqMarkupType, mc, converted>>

\* mc.Convert: Execute returns an error (pipe, Start or Wait failed)
ConvertExecuteFails ==
    /\ pcGateway = "created"
    /\ ~ConvertRefuses(mc)
    /\ ~ExecutePanics(mc.converterCmd)
    /\ converted' = [text |-> <<>>, err |-> TRUE]
    /\ pcGateway' = "returned"
    /\ UNCHANGED <<cfgConverters, reqMarkupType, mc>>

\* mc.Convert: the commands ran; the result is what they wrote to stdout
ConvertExecuted ==
    /\ pcGateway = "created"
    /\ ~ConvertRefuses(mc)
    /\ ~ExecutePanics(mc.converterCmd)
    /\ ~ExecuteCannotStart(mc.converterCmd)
    /\ \E text \in ConvertedTexts : converted' = [text |-> text, err |-> FALSE]
    /\ pcGateway' = "returned"
    /\ UNCHANGED <<cfgConverters, reqMarkupType, mc>>

-----------------------------------------------------------------------------
(* TexCommand.convertMarkup *)

\* patternMarkupType: ^\.([a-z]+)\s*$
MarkupTypeMatch(line) ==
    LET k == RunLen(line, 2, LowerChars)
    IN  IF /\ Len(line) >= 2
           /\ line[1] = "."
           /\ k >= 1
           /\ \A j \in (2 + k)..Len(line) : line[j] \in ReSpace
        THEN <<SubSeq(line, 2, 1 + k)>>
        ELSE <<>>

\* patternMarkupTypeBlockStart: ^\.([a-z]+)-{2,}\s*$
BlockStartMatch(line) ==
    LET k == RunLen(line, 2, LowerChars)
        h == RunLen(line, 2 + k, {"-"})
    IN  IF /\ Len(line) >= 2
           /\ line[1] = "."
           /\ k >= 1
           /\ h >= 2
           /\ \A j \in (2 + k + h)..Len(line) : line[j] \in ReSpace
        THEN <<SubSeq(line, 2, 1 + k)>>
        ELSE <<>>

\* patternMarkupTypeBlockEnd: ^-{2,}\s*$
BlockEndMatch(line) ==
    LET h == RunLen(line, 1, {"-"})
    IN  /\ h >= 2
        /\ \A j \in (1 + h)..Len(line) : line[j] \in ReSpace

\* the inner for loop: the first x >= from whose line is a block end, or -1
RECURSIVE FindBlockEnd(_, _)
FindBlockEnd(ls, x) ==
    IF x >= Len(ls)
    THEN -1
    ELSE IF BlockEndMatch(ls[x + 1])
    THEN x
    ELSE FindBlockEnd(ls, x + 1)

Sep == <<"\n">>
FromSep == -1
FromConverter == -2

SepPiece == [from |-> FromSep, text |-> Sep]

\* strings.Join(a[lo:hi], sep) as pieces
RECURSIVE JoinPieces(_, _, _)
JoinPieces(ls, lo, hi) ==
    IF lo >= hi
    THEN <<>>
    ELSE IF lo + 1 = hi
    THEN << [from |-> lo, text |-> ls[lo + 1]] >>
    ELSE << [from |-> lo, text |-> ls[lo + 1]], SepPiece >>
         \o JoinPieces(ls, lo + 1, hi)

\* b.String()
RECURSIVE BuilderString(_)
BuilderString(pieces) ==
    IF pieces = <<>>
    THEN <<>>
    ELSE pieces[1].text \o BuilderString(Tail(pieces))

\* a faulty variant of UnconvertedBlock: the start marker is left out
UnconvertedBlock_Inner(ls, idx, blockEnd) == JoinPieces(ls, idx + 1, blockEnd)

\* the lines written unconverted for a block whose conversion fails:
\* strings.Join(a[i:blockEnd], sep)
UnconvertedBlock(ls, idx, blockEnd) == JoinPieces(ls, idx, blockEnd)

\* the index the loop goes on from after the lines of a failed or
\* unterminated block were written (before the loop's i++)
IndexAfterUnconverted(ls, idx, blockEnd) == idx

\* a faulty variant of IndexAfterConverted: the loop goes on inside the block
IndexAfterConverted_Stay(idx, blockEnd) == idx

\* the index the loop goes on from after a block was converted: i = blockEnd
\* (before the loop's i++)
IndexAfterConverted(idx, blockEnd) == blockEnd

\* a faulty variant of SingleLineResult: the separator is added
SingleLineResult_WithSep(ls) == ls[1] \o Sep

\* case 1 of the switch on len(a): return a[0]
SingleLineResult(ls) == ls[1]

\* the bounds of the slice given to Convert: a[i+1 : blockEnd-1]
ConvertArgBounds(idx, blockEnd) == <<idx + 1, blockEnd - 1>>

\* lines of a CONTENT section the model draws from
MarkupLinePool ==
    { <<"x">>, <<>>, <<".", "m", "-", "-">>, <<"-", "-">>, <<".", "m">> }

\* converter registries the model draws from
RegistryPool ==
    { <<>>,
      (MarkupType_m :> CmdC),
      (Wildcard :> CmdWild),
      (MarkupType_m :> CmdC) @@ (Wildcard :> CmdWild),
      (MarkupType_m :> CmdBlank),
      (MarkupType_m :> CmdQuotes) }

\* what contentToTemplateInput passes to convertMarkup (line 169): a
\* non-empty trimmed section whose first line is no markup declaration
MixedModeSection(ls) ==
    /\ Len(ls) > 0
    /\ trimSurroundingEmptyLines(ls) = [panic |-> FALSE, val |-> ls]
    /\ MarkupTypeMatch(ls[1]) = <<>>

MarkupInit ==
    /\ MarkupConverters \in RegistryPool
    /\ a \in {ls \in SeqsUpTo(MarkupLinePool, MaxMarkupLines) : MixedModeSection(ls)}
    /\ i = 0
    /\ b = <<>>
    /\ blocks = <<>>
    /\ out = <<>>
    /\ pcMarkup = "call"

MarkupIdle ==
    /\ MarkupConverters = <<>>
    /\ a = <<>>
    /\ i = 0
    /\ b = <<>>
    /\ blocks = <<>>
    /\ out = <<>>
    /\ pcMarkup = "idle"

\* the switch on len(a), and the start of the loop
EnterConvertMarkup ==
    /\ pcMarkup = "call"
    /\ IF Len(a) = 0
       THEN out' = <<>> /\ pcMarkup' = "done"
       ELSE IF Len(a) = 1
       THEN out' = SingleLineResult(a) /\ pcMarkup' = "done"
       ELSE out' = out /\ pcMarkup' = "loop"
    /\ UNCHANGED <<MarkupConverters, a, i, b, blocks>>

AtLine == pcMarkup = "loop" /\ i < Len(a)
AtBlockStart == AtLine /\ BlockStartMatch(a[i + 1]) # <<>>
BlockEnd == FindBlockEnd(a, i)
BlockConverter == NewConverter(BlockStartMatch(a[i + 1])[1], MarkupConverters)

BlockRecord(outcome, called, ls) ==
    [i |-> i, blockEnd |-> BlockEnd, outcome |-> outcome,
     called |-> called, lines |-> ls, at |-> Len(b)]

\* normal line (not inside markup block)
NormalLine ==
    /\ AtLine
    /\ BlockStartMatch(a[i + 1]) = <<>>
    /\ b' = b \o << [from |-> i, text |-> a[i + 1]], SepPiece >>
    /\ i' = i + 1
    /\ UNCHANGED <<MarkupConverters, a, blocks, out, pcMarkup>>

\* no markup block end
BlockNoEnd ==
    /\ AtBlockStart
    /\ BlockEnd = -1
    /\ b' = b \o UnconvertedBlock(a, i, Len(a)) \o <<SepPiece>>
    /\ i' = IndexAfterUnconverted(a, i, Len(a)) + 1
    /\ blocks' = Append(blocks, BlockRecord("noend", FALSE, <<>>))
    /\ UNCHANGED <<MarkupConverters, a, out, pcMarkup>>

\* NewConverter returns an error
BlockNoConverter ==
    /\ AtBlockStart
    /\ BlockEnd # -1
    /\ BlockConverter.err
    /\ b' = b \o UnconvertedBlock(a, i, BlockEnd) \o <<SepPiece>>
    /\ i' = IndexAfterUnconverted(a, i, BlockEnd) + 1
    /\ blocks' = Append(blocks, BlockRecord("noconverter", FALSE, <<>>))
    /\ UNCHANGED <<MarkupConverters, a, out, pcMarkup>>

\* a[i+1 : blockEnd-1] is out of range: the goroutine panics
BlockSlicePanic ==
    /\ AtBlockStart
    /\ BlockEnd # -1
    /\ ~BlockConverter.err
    /\ ~SliceInRange(a, ConvertArgBounds(i, BlockEnd)[1], ConvertArgBounds(i, BlockEnd)[2])
    /\ pcMarkup' = "panic"
    /\ blocks' = Append(blocks, BlockRecord("panic", FALSE, <<>>))
    /\ UNCHANGED <<MarkupConverters, a, i, b, out>>

BlockConvertCalled ==
    /\ AtBlockStart
    /\ BlockEnd # -1
    /\ ~BlockConverter.err
    /\ SliceInRange(a, ConvertArgBounds(i, BlockEnd)[1], ConvertArgBounds(i, BlockEnd)[2])

ConvertArg == Slice(a, ConvertArgBounds(i, BlockEnd)[1], ConvertArgBounds(i, BlockEnd)[2])

\* Convert does not return: Execute panics on a command line without
\* commands
BlockExecutePanics ==
    /\ BlockConvertCalled
    /\ ~ConvertRefuses(BlockConverter)
    /\ ExecutePanics(BlockConverter.converterCmd)
    /\ pcMarkup' = "panic"
    /\ blocks' = Append(blocks, BlockRecord("panic", TRUE, ConvertArg))
    /\ UNCHANGED <<MarkupConverters, a, i, b, out>>

\* Convert returns an error: the command is blank, or its execution fails
BlockConvertError ==
    /\ BlockConvertCalled
    /\ ConvertRefuses(BlockConverter) \/ ~ExecutePanics(BlockConverter.converterCmd)
    /\ b' = b \o UnconvertedBlock(a, i, BlockEnd) \o <<SepPiece>>
    /\ i' = IndexAfterUnconverted(a, i, BlockEnd) + 1
    /\ blocks' = Append(blocks, BlockRecord("error", TRUE, ConvertArg))
    /\ UNCHANGED <<MarkupConverters, a, out, pcMarkup>>

\* Convert returns the converter's output r
BlockConverted ==
    /\ BlockConvertCalled
    /\ ~ConvertRefuses(BlockConverter)
    /\ ~ExecutePanics(BlockConverter.converterCmd)
    /\ ~ExecuteCannotStart(BlockConverter.converterCmd)
    /\ \E r \in ConvertedTexts :
          b' = b \o << [from |-> FromConverter, text |-> r], SepPiece >>
    /\ i' = IndexAfterConverted(i, BlockEnd) + 1
    /\ blocks' = Append(blocks, BlockRecord("ok", TRUE, ConvertArg))
    /\ UNCHANGED <<MarkupConverters, a, out, pcMarkup>>

\* return b.String()
ReturnString ==
    /\ pcMarkup = "loop"
    /\ i >= Len(a)
    /\ out' = BuilderString(b)
    /\ pcMarkup' = "done"
    /\ UNCHANGED <<MarkupConverters, a, i, b, blocks>>

-----------------------------------------------------------------------------
(* TexCommand.contentToTemplateInput *)

\* strings.Join(ls, sep)
RECURSIVE Join(_, _)
Join(ls, sep) ==
    IF Len(ls) = 0 THEN <<>>
    ELSE IF Len(ls) = 1 THEN ls[1]
    ELSE ls[1] \o sep \o Join(Tail(ls), sep)

\* "\\\\\n": two backslashes and a newline
HardBreak == <<"\\", "\\", "\n">>

\* the pairs of utfCharReplacer; the first old string is the three
\* characters U+00E2 U+20AC U+00AF the source file holds for the thin space
ReplacerPairs ==
    << [old |-> <<"U+00E2", "U+20AC", "U+00AF">>, new |-> <<"\\", ",">>],
       [old |-> <<"_">>, new |-> <<"\\", "s", "t", "r", "i", "n", "g", "_">>],
       [old |-> <<"^">>, new |-> <<"\\", "s", "t", "r", "i", "n", "g", "^">>] >>

\* utfCharReplacer.Replace(s): at each position the first pair whose old
\* string stands there is applied; replaced text is not scanned again
RECURSIVE Replace(_)
Replace(s) ==
    IF s = <<>>
    THEN <<>>
    ELSE LET hits == {j \in 1..Len(ReplacerPairs) :
                         /\ Len(ReplacerPairs[j].old) <= Len(s)
                         /\ SubSeq(s, 1, Len(ReplacerPairs[j].old))
                                = ReplacerPairs[j].old}
         IN  IF hits = {}
             THEN <<s[1]>> \o Replace(Tail(s))
             ELSE LET j == CHOOSE j \in hits : \A h \in hits : j <= h
                  IN  ReplacerPairs[j].new
                        \o Replace(SubSeq(s, Len(ReplacerPairs[j].old) + 1, Len(s)))

\* the value of a section other than CONTENT (line 150)
OtherSectionValue(v) == Join(v, HardBreak)

\* a faulty variant of WholeSectionArg: the declaration line is passed too
WholeSectionArg_All(v) == v

\* what Convert gets in whole-section mode: v[1:] (line 161)
WholeSectionArg(v) == Slice(v, 1, Len(v))

\* a faulty variant of WholeSectionFallback: the declaration line is dropped
WholeSectionFallback_Rest(v) == Join(Tail(v), Sep)

\* the value of CONTENT when whole-section conversion is not possible
\* (lines 159 and 164)
WholeSectionFallback(v) == Join(v, Sep)

ContentKey == <<"C", "O", "N", "T", "E", "N", "T">>
OtherKey == <<"T", "O">>

\* the sections other than CONTENT the model draws from
OtherSectionPool ==
    { <<>>,
      << <<>> >>,
      << <<"x">> >>,
      << <<"x">>, <<"a", "_", "b">> >>,
      << <<>>, <<".", "m">>, <<"x">>, <<>> >>,
      << <<".", "m", "-", "-">>, <<"x">>, <<"-", "-">> >> }

ContentSectionPool == SeqsUpTo(MarkupLinePool, MaxContentLines)

\* the section maps CreateBrf can hand over
BrfSectionsPool ==
    { <<>> }
    \cup { (ContentKey :> c) : c \in ContentSectionPool }
    \cup { (OtherKey :> o) : o \in OtherSectionPool }
    \cup { (ContentKey :> c) @@ (OtherKey :> o) :
              c \in ContentSectionPool, o \in OtherSectionPool }

ContentInit ==
    /\ brfSections \in BrfSectionsPool
    /\ visited = <<>>
    /\ rContent = <<>>
    /\ rawContent = <<>>
    /\ wholeCalls = <<>>
    /\ pcContent = "range"

ContentIdle ==
    /\ brfSections = <<>>
    /\ visited = <<>>
    /\ rContent = <<>>
    /\ rawContent = <<>>
    /\ wholeCalls = <<>>
    /\ pcContent = "idle"

\* convertMarkup not yet called, under the configuration c.Config
MarkupNotCalled ==
    /\ MarkupConverters \in RegistryPool
    /\ a = <<>>
    /\ i = 0
    /\ b = <<>>
    /\ blocks = <<>>
    /\ out = <<>>
    /\ pcMarkup = "idle"

\* the keys the range over brf.Sections has still to take up; Go leaves
\* the order of a map range open
Pending == DOMAIN brfSections \ {visited[j] : j \in 1..Len(visited)}

\* v = trimSurroundingEmptyLines(v): [panic, val]
TrimmedSection(key) == trimSurroundingEmptyLines(brfSections[key])

\* the range loop takes up key, and the trimming succeeds
TakeUp(key) ==
    /\ pcContent = "range"
    /\ key \in Pending
    /\ ~TrimmedSection(key).panic
    /\ visited' = Append(visited, key)

\* r[k] = raw, followed by r[k] = utfCharReplacer.Replace(r[k]) (line 175)
SetValue(key, raw) ==
    /\ rawContent' = MapPut(rawContent, key, raw)
    /\ rContent' = MapPut(rContent, key, Replace(raw))

\* the converter of whole-section mode (line 156)
WholeConverter(key) ==
    NewConverter(MarkupTypeMatch(TrimmedSection(key).val[1])[1], MarkupConverters)

WholeCall(key, outcome) ==
    [markupType |-> WholeConverter(key).markupType,
     lines |-> WholeSectionArg(TrimmedSection(key).val),
     outcome |-> outcome]

\* the slice expression of trimSurroundingEmptyLines panics (line 145)
SectionTrimPanics ==
    /\ pcContent = "range"
    /\ \E key \in Pending :
          /\ TrimmedSection(key).panic
          /\ visited' = Append(visited, key)
    /\ pcContent' = "panic"
    /\ UNCHANGED <<brfSections, rContent, rawContent, wholeCalls>>

\* k != "CONTENT" (lines 149-150, 175)
OtherSection ==
    /\ \E key \in Pending \ {ContentKey} :
          /\ TakeUp(key)
          /\ SetValue(key, OtherSectionValue(TrimmedSection(key).val))
    /\ UNCHANGED <<brfSections, wholeCalls, pcContent>>

\* CONTENT, and v[0] declares a markup type
ContentWhole ==
    /\ TakeUp(ContentKey)
    /\ Len(TrimmedSection(ContentKey).val) > 0
    /\ MarkupTypeMatch(TrimmedSection(ContentKey).val[1]) # <<>>

\* NewConverter returns an error (lines 156-159)
ContentWholeNoConverter ==
    /\ ContentWhole
    /\ WholeConverter(ContentKey).err
    /\ SetValue(ContentKey, WholeSectionFallback(TrimmedSection(ContentKey).val))
    /\ UNCHANGED <<brfSections, wholeCalls, pcContent>>

\* mc.Convert(v[1:]) does not return: Execute panics
ContentWholeExecutePanics ==
    /\ ContentWhole
    /\ ~WholeConverter(ContentKey).err
    /\ ~ConvertRefuses(WholeConverter(ContentKey))
    /\ ExecutePanics(WholeConverter(ContentKey).converterCmd)
    /\ wholeCalls' = Append(wholeCalls, WholeCall(ContentKey, "panic"))
    /\ pcContent' = "panic"
    /\ UNCHANGED <<brfSections, rContent, rawContent>>

\* mc.Convert(v[1:]) returns an error (lines 161-165)
ContentWholeConvertError ==
    /\ ContentWhole
    /\ ~WholeConverter(ContentKey).err
    /\ \/ ConvertRefuses(WholeConverter(ContentKey))
       \/ ~ExecutePanics(WholeConverter(ContentKey).converterCmd)
    /\ wholeCalls' = Append(wholeCalls, WholeCall(ContentKey, "error"))
    /\ SetValue(ContentKey, WholeSectionFallback(TrimmedSection(ContentKey).val))
    /\ UNCHANGED <<brfSections, pcContent>>

\* mc.Convert(v[1:]) returns the converter's output (line 161)
ContentWholeConverted ==
    /\ ContentWhole
    /\ ~WholeConverter(ContentKey).err
    /\ ~ConvertRefuses(WholeConverter(ContentKey))
    /\ ~ExecutePanics(WholeConverter(ContentKey).converterCmd)
    /\ ~ExecuteCannotStart(WholeConverter(ContentKey).converterCmd)
    /\ wholeCalls' = Append(wholeCalls, WholeCall(ContentKey, "ok"))
    /\ \E text \in ConvertedTexts : SetValue(ContentKey, text)
    /\ UNCHANGED <<brfSections, pcContent>>

\* CONTENT without a declaration: c.convertMarkup(v) is called (line 169).
\* len(v) > 0 holds for every v the trimming returns.
ContentMixedCall ==
    /\ TakeUp(ContentKey)
    /\ Len(TrimmedSection(ContentKey).val) > 0
    /\ MarkupTypeMatch(TrimmedSection(ContentKey).val[1]) = <<>>
    /\ a' = TrimmedSection(ContentKey).val
    /\ pcMarkup' = "call"
    /\ pcContent' = "mixed"
    /\ UNCHANGED <<MarkupConverters, i, b, blocks, out>>
    /\ UNCHANGED <<brfSections, rContent, rawContent, wholeCalls>>

\* c.convertMarkup(v) has returned (lines 169, 175)
ContentMixedReturn ==
    /\ pcContent = "mixed"
    /\ pcMarkup = "done"
    /\ SetValue(ContentKey, out)
    /\ pcMarkup' = "returned"
    /\ pcContent' = "range"
    /\ UNCHANGED <<MarkupConverters, a, i, b, blocks, out>>
    /\ UNCHANGED <<brfSections, visited, wholeCalls>>

\* c.convertMarkup(v) has panicked
ContentMixedPanics ==
    /\ pcContent = "mixed"
    /\ pcMarkup = "panic"
    /\ pcMarkup' = "unwound"
    /\ pcContent' = "panic"
    /\ UNCHANGED <<MarkupConverters, a, i, b, blocks, out>>
    /\ UNCHANGED <<brfSections, visited, rContent, rawContent, wholeCalls>>

\* return r
ContentReturn ==
    /\ pcContent = "range"
    /\ Pending = {}
    /\ pcContent' = "done"
    /\ UNCHANGED <<brfSections, visited, rContent, rawContent, wholeCalls>>

-----------------------------------------------------------------------------
(* address.ReadFromFile *)

\* strings.HasPrefix(s, prefix)
HasPrefix(s, prefix) ==
    Len(s) >= Len(prefix) /\ SubSeq(s, 1, Len(prefix)) = prefix

\* strings.TrimPrefix(s, prefix)
TrimPrefix(s, prefix) ==
    IF HasPrefix(s, prefix) THEN SubSeq(s, Len(prefix) + 1, Len(s)) ELSE s

\* strings.SplitN(s, ":", 2): s itself when it has no colon, else the text
\* before the first colon and the text after it
SplitAtColon(s) ==
    LET colons == {j \in 1..Len(s) : s[j] = ":"}
    IN  IF colons = {}
        THEN <<s>>
        ELSE LET c == CHOOSE j \in colons : \A n \in colons : j <= n
             IN  <<SubSeq(s, 1, c - 1), SubSeq(s, c + 1, Len(s))>>

AddressPrefix == <<"a", "d", "d", "r", "e", "s", "s", ":">>

\* a faulty variant of Skipped: comment lines are not skipped
Skipped_BlankOnly(line) == Len(line) = 0

\* the trimmed line is blank or a comment (line 38)
Skipped(line) == Len(line) = 0 \/ HasPrefix(line, <<"#">>)

\* a faulty variant of AppendField: the value replaces the earlier ones
AppendField_Overwrite(fields, key, v) == MapPut(fields, key, <<v>>)

\* curAddress.Fields[k] = append(curAddress.Fields[k], v) (lines 55-58)
AppendField(fields, key, v) ==
    MapPut(fields, key,
           Append(IF key \in DOMAIN fields THEN fields[key] ELSE <<>>, v))

\* a nil *Address; a non-nil one is the index in the heap of its Fields map
NilAddress == 0

\* the map ReadFromFile returns: each stored Address with the Fields map
\* it refers to.  The copy stored at line 44 shares the Fields map with
\* *curAddress.
StoredAddresses(heap, senderAddresses) ==
    [id \in DOMAIN senderAddresses |-> [Fields |-> heap[senderAddresses[id]]]]

\* return nil, fmt.Errorf(...)
ReadFailed == [err |-> TRUE, val |-> <<>>]

\* the scanner loop of ReadFromFile from line idx (0-based) on, and the
\* return after it.  heap holds the Fields maps made so far,
\* senderAddresses refers to them by index.
RECURSIVE ReadLoop(_, _, _, _, _)
ReadLoop(ls, idx, heap, senderAddresses, curAddress) ==
    IF idx >= Len(ls)
    THEN [err |-> FALSE, val |-> <<StoredAddresses(heap, senderAddresses)>>]
    ELSE LET line == TrimSpace(ls[idx + 1])
         IN  IF Skipped(line)
             THEN ReadLoop(ls, idx + 1, heap, senderAddresses, curAddress)
             ELSE IF HasPrefix(line, AddressPrefix)
             THEN LET addressId == TrimSpace(TrimPrefix(line, AddressPrefix))
                  IN  ReadLoop(ls, idx + 1, Append(heap, <<>>),
                               MapPut(senderAddresses, addressId, Len(heap) + 1),
                               Len(heap) + 1)
             ELSE IF curAddress = NilAddress
             THEN ReadFailed
             ELSE IF Len(SplitAtColon(line)) # 2
             THEN ReadFailed
             ELSE ReadLoop(ls, idx + 1,
                           [heap EXCEPT ![curAddress] =
                               AppendField(@, TrimSpace(SplitAtColon(line)[1]),
                                           TrimSpace(SplitAtColon(line)[2]))],
                           senderAddresses, curAddress)

\* ReadFromFile on a file that can be opened and read
ReadFromFile(ls) == ReadLoop(ls, 0, <<>>, <<>>, NilAddress)

\* lines of an address file the model draws from
FileLinePool ==
    { <<>>,
      <<" ">>,
      <<"#", "x">>,
      <<"a", "d", "d", "r", "e", "s", "s", ":", "a">>,
      <<" ", "a", "d", "d", "r", "e", "s", "s", ":", " ", "b">>,
      <<"k", ":", "v">>,
      <<"k", " ", ":", " ", "w", ":", "z">>,
      <<"j", ":">>,
      <<"x">> }

NotRead == [err |-> FALSE, val |-> <<>>]

AddressInit ==
    /\ fileLines \in SeqsUpTo(FileLinePool, MaxFileLines)
    /\ readResult = NotRead
    /\ pcAddress = "ready"

AddressIdle ==
    /\ fileLines = <<>>
    /\ readResult = NotRead
    /\ pcAddress = "idle"

\* senderAddresses, err := address.ReadFromFile(...)
CallReadFromFile ==
    /\ pcAddress = "ready"
    /\ readResult' = ReadFromFile(fileLines)
    /\ pcAddress' = "done"
    /\ UNCHANGED fileLines

-----------------------------------------------------------------------------
(* cmdline.Parser.Parse as an operation of its own *)

\* characters of the command lines the model draws from
ParseChars == {"a", "b", " ", "|", "'"}

ParseInit ==
    /\ parseS \in SeqsUpTo(ParseChars, MaxCmdLineLen)
    /\ parseCmds = <<>>
    /\ pcParse = "ready"

ParseIdle ==
    /\ parseS = <<>>
    /\ parseCmds = <<>>
    /\ pcParse = "idle"

\* commands := parser.Parse(cmdLine)
CallParse ==
    /\ pcParse = "ready"
    /\ parseCmds' = Parse(parseS)
    /\ pcParse' = "done"
    /\ UNCHANGED parseS

-----------------------------------------------------------------------------
(* cmdline.Execute: the working directory *)

\* directories of the file system; NoSuchDir does not exist
Dirs == {"/w", "/x"}
NoSuchDir == "/nx"
NoDir == ""

\* command lines given to Execute: no command, one, two piped, one that
\* cannot be started
ExecCmdLines == {CmdQuotes, CmdC, <<"c", " ", "|", "c">>, CmdPipe}

ExecInit ==
    /\ cwd \in Dirs
    /\ cwdBefore = cwd
    /\ workingDir \in Dirs \cup {NoSuchDir, NoDir}
    /\ execCmdLine \in ExecCmdLines
    /\ curWorkingDir = NoDir
    /\ deferred = FALSE
    /\ chdirBackErr = FALSE
    /\ externalRuns = 0
    /\ execResult = "none"
    /\ pcExec = "entry"

ExecIdle ==
    /\ cwd = NoDir
    /\ cwdBefore = NoDir
    /\ workingDir = NoDir
    /\ execCmdLine = <<>>
    /\ curWorkingDir = NoDir
    /\ deferred = FALSE
    /\ chdirBackErr = FALSE
    /\ externalRuns = 0
    /\ execResult = "none"
    /\ pcExec = "idle"

\* a faulty variant of DeferredRuns: the function runs on success only
DeferredRuns_OnSuccess(registered, result) == registered /\ result = "nil"

\* a deferred function runs on every way out of Execute once the defer
\* statement was executed: return nil, return of an error, panic
DeferredRuns(registered, result) == registered

execArgs == <<cwdBefore, workingDir, execCmdLine>>

\* if workingDir != "" is false: the directory is not touched
ExecNoWorkingDir ==
    /\ pcExec = "entry"
    /\ workingDir = NoDir
    /\ pcExec' = "run"
    /\ UNCHANGED <<cwd, curWorkingDir, deferred, chdirBackErr, externalRuns,
                   execResult, execArgs>>

\* os.Getwd() returns an error: return before the defer statement
ExecGetwdFails ==
    /\ pcExec = "entry"
    /\ workingDir # NoDir
    /\ execResult' = "error"
    /\ pcExec' = "return"
    /\ UNCHANGED <<cwd, curWorkingDir, deferred, chdirBackErr, externalRuns,
                   execArgs>>

\* curWorkingDir, err := os.Getwd(); defer func() {...}()
ExecGetwd ==
    /\ pcExec = "entry"
    /\ workingDir # NoDir
    /\ curWorkingDir' = cwd
    /\ deferred' = TRUE
    /\ pcExec' = "chdir"
    /\ UNCHANGED <<cwd, chdirBackErr, externalRuns, execResult, execArgs>>

\* err = os.Chdir(workingDir) returns an error: the directory is not
\* changed, Execute returns the error
ExecChdirFails ==
    /\ pcExec = "chdir"
    /\ execResult' = "error"
    /\ pcExec' = "return"
    /\ UNCHANGED <<cwd, curWorkingDir, deferred, chdirBackErr, externalRuns,
                   execArgs>>

\* err = os.Chdir(workingDir) succeeds
ExecChdir ==
    /\ pcExec = "chdir"
    /\ workingDir \in Dirs
    /\ cwd' = workingDir
    /\ pcExec' = "run"
    /\ UNCHANGED <<curWorkingDir, deferred, chdirBackErr, externalRuns,
                   execResult, execArgs>>

\* commands[0].Stdin = stdin when Parse gave no command: index out of range
ExecIndexPanics ==
    /\ pcExec = "run"
    /\ ExecutePanics(execCmdLine)
    /\ execResult' = "panic"
    /\ pcExec' = "return"
    /\ UNCHANGED <<cwd, curWorkingDir, deferred, chdirBackErr, externalRuns,
                   execArgs>>

\* StdoutPipe, Start or Wait returns an error
ExecFails ==
    /\ pcExec = "run"
    /\ ~ExecutePanics(execCmdLine)
    /\ \E started \in 0..Len(Parse(execCmdLine)) :
          /\ ExecuteCannotStart(execCmdLine) => started < Len(Parse(execCmdLine))
          /\ externalRuns' = externalRuns + started
    /\ execResult' = "error"
    /\ pcExec' = "return"
    /\ UNCHANGED <<cwd, curWorkingDir, deferred, chdirBackErr, execArgs>>

\* all commands were started and waited for: return nil
ExecSucceeds ==
    /\ pcExec = "run"
    /\ ~ExecutePanics(execCmdLine)
    /\ ~ExecuteCannotStart(execCmdLine)
    /\ externalRuns' = externalRuns + Len(Parse(execCmdLine))
    /\ execResult' = "nil"
    /\ pcExec' = "return"
    /\ UNCHANGED <<cwd, curWorkingDir, deferred, chdirBackErr, execArgs>>

\* leaving Execute without a deferred function to run
ExecReturn ==
    /\ pcExec = "return"
    /\ ~DeferredRuns(deferred, execResult)
    /\ pcExec' = "done"
    /\ UNCHANGED <<cwd, curWorkingDir, deferred, chdirBackErr, externalRuns,
                   execResult, execArgs>>

\* the deferred function: os.Chdir(curWorkingDir) succeeds
ExecChdirBack ==
    /\ pcExec = "return"
    /\ DeferredRuns(deferred, execResult)
    /\ cwd' = curWorkingDir
    /\ pcExec' = "done"
    /\ UNCHANGED <<curWorkingDir, deferred, chdirBackErr, externalRuns,
                   execResult, execArgs>>

\* the deferred function: os.Chdir(curWorkingDir) returns an error, which
\* is logged
ExecChdirBackFails ==
    /\ pcExec = "return"
    /\ DeferredRuns(deferred, execResult)
    /\ chdirBackErr' = TRUE
    /\ pcExec' = "done"
    /\ UNCHANGED <<cwd, curWorkingDir, deferred, externalRuns, execResult,
                   execArgs>>

-----------------------------------------------------------------------------
(* PdfCommand.run, PreviewCommand.run: the staged build *)

\* os.Stat returns an error: the file does not exist
NoFile == 0

\* the modification time of a file written while the command runs
NewTime == MaxTime + 1

\* a faulty variant of IsNewerThan: equal times count as newer
IsNewerThan_OrSame(file1, file2) ==
    IF file2 = NoFile THEN TRUE
    ELSE IF file1 = NoFile THEN FALSE
    ELSE file1 >= file2

\* IsNewerThan on the modification times of the two files
IsNewerThan(file1, file2) ==
    IF file2 = NoFile THEN TRUE
    ELSE IF file1 = NoFile THEN FALSE
    ELSE file1 > file2

BuildInit ==
    /\ topCmd \in {"pdf", "preview"}
    /\ brfTime \in 0..MaxTime
    /\ texTime \in 0..MaxTime
    /\ pdfTime \in 0..MaxTime
    /\ texTimeBefore = texTime
    /\ pdfTimeBefore = pdfTime
    /\ pdfCommandSet \in BOOLEAN
    /\ previewCommandSet \in BOOLEAN
    /\ stages = <<>>
    /\ buildResult = "none"
    /\ pcBuild = topCmd

BuildIdle ==
    /\ topCmd = "none"
    /\ brfTime = NoFile
    /\ texTime = NoFile
    /\ pdfTime = NoFile
    /\ texTimeBefore = NoFile
    /\ pdfTimeBefore = NoFile
    /\ pdfCommandSet = FALSE
    /\ previewCommandSet = FALSE
    /\ stages = <<>>
    /\ buildResult = "none"
    /\ pcBuild = "idle"

buildArgs ==
    <<topCmd, brfTime, texTimeBefore, pdfTimeBefore, pdfCommandSet,
      previewCommandSet>>

\* the command returns an error (or panics) to the user
BuildAborts(result) ==
    /\ buildResult' = result
    /\ pcBuild' = "done"

\* PreviewCommand.run: if c.Config.PreviewCommand == ""
PreviewNoCommand ==
    /\ pcBuild = "preview"
    /\ ~previewCommandSet
    /\ BuildAborts("error")
    /\ UNCHANGED <<texTime, pdfTime, stages, buildArgs>>

\* needsPdfRun: pdfCmd.run(nil) is called
PreviewNeedsPdf ==
    /\ pcBuild = "preview"
    /\ previewCommandSet
    /\ ~IsNewerThan(pdfTime, brfTime)
    /\ pcBuild' = "pdf"
    /\ UNCHANGED <<texTime, pdfTime, stages, buildResult, buildArgs>>

\* !needsPdfRun: on to the previewer
PreviewPdfCurrent ==
    /\ pcBuild = "preview"
    /\ previewCommandSet
    /\ IsNewerThan(pdfTime, brfTime)
    /\ pcBuild' = "previewExec"
    /\ UNCHANGED <<texTime, pdfTime, stages, buildResult, buildArgs>>

\* PdfCommand.run: if c.Config.PdfCommand == ""; a PreviewCommand that
\* called it returns the error as well
PdfNoCommand ==
    /\ pcBuild = "pdf"
    /\ ~pdfCommandSet
    /\ BuildAborts("error")
    /\ UNCHANGED <<texTime, pdfTime, stages, buildArgs>>

\* needsTexRun: texCmd.run(nil) is called
PdfNeedsTex ==
    /\ pcBuild = "pdf"
    /\ pdfCommandSet
    /\ ~IsNewerThan(texTime, brfTime)
    /\ pcBuild' = "tex"
    /\ UNCHANGED <<texTime, pdfTime, stages, buildResult, buildArgs>>

\* !needsTexRun: on to the pdf command
PdfTexCurrent ==
    /\ pcBuild = "pdf"
    /\ pdfCommandSet
    /\ IsNewerThan(texTime, brfTime)
    /\ pcBuild' = "pdfExec"
    /\ UNCHANGED <<texTime, pdfTime, stages, buildResult, buildArgs>>

\* texCmd.run(nil) returns nil: the .tex file is written
TexRunOk ==
    /\ pcBuild = "tex"
    /\ stages' = Append(stages, [stage |-> "tex", ok |-> TRUE])
    /\ texTime' = NewTime
    /\ pcBuild' = "pdfExec"
    /\ UNCHANGED <<pdfTime, buildResult, buildArgs>>

\* texCmd.run(nil) returns an error, or panics; the .tex file may have
\* been written
TexRunFails ==
    /\ pcBuild = "tex"
    /\ stages' = Append(stages, [stage |-> "tex", ok |-> FALSE])
    /\ texTime' \in {texTime, NewTime}
    /\ \E result \in {"error", "panic"} : BuildAborts(result)
    /\ UNCHANGED <<pdfTime, buildArgs>>

\* cmdline.Execute of the pdf command returns nil
PdfExecOk ==
    /\ pcBuild = "pdfExec"
    /\ stages' = Append(stages, [stage |-> "pdf", ok |-> TRUE])
    /\ pdfTime' = NewTime
    /\ IF topCmd = "pdf"
       THEN BuildAborts("nil")
       ELSE pcBuild' = "previewExec" /\ UNCHANGED buildResult
    /\ UNCHANGED <<texTime, buildArgs>>

\* cmdline.Execute of the pdf command returns an error
PdfExecFails ==
    /\ pcBuild = "pdfExec"
    /\ stages' = Append(stages, [stage |-> "pdf", ok |-> FALSE])
    /\ pdfTime' \in {pdfTime, NewTime}
    /\ BuildAborts("error")
    /\ UNCHANGED <<texTime, buildArgs>>

\* cmdline.Execute of the previewer returns nil
PreviewExecOk ==
    /\ pcBuild = "previewExec"
    /\ stages' = Append(stages, [stage |-> "preview", ok |-> TRUE])
    /\ BuildAborts("nil")
    /\ UNCHANGED <<texTime, pdfTime, buildArgs>>

\* cmdline.Execute of the previewer returns an error
PreviewExecFails ==
    /\ pcBuild = "previewExec"
    /\ stages' = Append(stages, [stage |-> "preview", ok |-> FALSE])
    /\ BuildAborts("error")
    /\ UNCHANGED <<texTime, pdfTime, buildArgs>>

-----------------------------------------------------------------------------
(* TexCommand.run: its inputs and its output file *)

\* TEMPLATE and FROM sections the model draws from: missing, one value,
\* one value between blank lines, blank, two values
SingleValueSections ==
    { <<>>, << <<"t">> >>, << <<>>, <<" ", "t">>, <<" ">> >>, << <<" ">> >>,
      << <<"t">>, <<"u">> >> }

\* sender lists the model draws from: empty, a record, a line without
\* colon, a field before any record
SenderLists ==
    { <<>>,
      << <<"a", "d", "d", "r", "e", "s", "s", ":", "t">>, <<"k", ":", "v">> >>,
      << <<"a", "d", "d", "r", "e", "s", "s", ":", "t">>, <<"k">> >>,
      << <<"k", ":", "v">> >> }

TexInit ==
    /\ docReadable \in BOOLEAN
    /\ templateSection \in SingleValueSections
    /\ fromSection \in SingleValueSections
    /\ templateReadable \in BOOLEAN
    /\ senderListReadable \in BOOLEAN
    /\ senderList \in SenderLists
    /\ outFile \in {"absent", "old"}
    /\ outFileBefore = outFile
    /\ ctxBuilt = FALSE
    /\ texResult = "none"
    /\ pcTex = "ReadBrfFile"

TexIdle ==
    /\ docReadable = FALSE
    /\ templateSection = <<>>
    /\ fromSection = <<>>
    /\ templateReadable = FALSE
    /\ senderListReadable = FALSE
    /\ senderList = <<>>
    /\ outFile = "absent"
    /\ outFileBefore = "absent"
    /\ ctxBuilt = FALSE
    /\ texResult = "none"
    /\ pcTex = "idle"

texInputs ==
    <<docReadable, templateSection, fromSection, templateReadable,
      senderListReadable, senderList, outFileBefore>>

\* run is left: with nil, with an error, or by a panic
TexLeaves(result) ==
    /\ texResult' = result
    /\ pcTex' = "done"

\* run goes on with the next statement
TexGoesOn(next) ==
    /\ pcTex' = next
    /\ UNCHANGED texResult

\* the .tex file after the statement at: os.Create makes or truncates it
CreatedFile(at, file) == IF at = "os.Create" THEN "empty" ELSE file

\* brf, err := parser.ReadBrfFile(c.brfFile)
TexReadBrfFile ==
    /\ pcTex = "ReadBrfFile"
    /\ IF docReadable THEN TexGoesOn("TEMPLATE") ELSE TexLeaves("error")
    /\ outFile' = CreatedFile(pcTex, outFile)
    /\ UNCHANGED <<ctxBuilt, texInputs>>

\* what a call of getSingleValue makes of run: a panic unwinds, an error
\* is returned, else run goes on
AfterSingleValue(section, next) ==
    IF getSingleValue(section).panic THEN TexLeaves("panic")
    ELSE IF getSingleValue(section).err # ErrNone THEN TexLeaves("error")
    ELSE TexGoesOn(next)

\* texTemplate, err := getSingleValue(brf.Sections["TEMPLATE"])
TexTemplateName ==
    /\ pcTex = "TEMPLATE"
    /\ AfterSingleValue(templateSection, "ParseFiles")
    /\ outFile' = CreatedFile(pcTex, outFile)
    /\ UNCHANGED <<ctxBuilt, texInputs>>

\* tmpl, err := template.ParseFiles(...)
TexParseFiles ==
    /\ pcTex = "ParseFiles"
    /\ IF templateReadable THEN TexGoesOn("ReadFromFile") ELSE TexLeaves("error")
    /\ outFile' = CreatedFile(pcTex, outFile)
    /\ UNCHANGED <<ctxBuilt, texInputs>>

\* senderAddresses, err := address.ReadFromFile(c.Config.SenderList)
TexReadFromFile ==
    /\ pcTex = "ReadFromFile"
    /\ IF senderListReadable /\ ~ReadFromFile(senderList).err
       THEN TexGoesOn("FROM")
       ELSE TexLeaves("error")
    /\ outFile' = CreatedFile(pcTex, outFile)
    /\ UNCHANGED <<ctxBuilt, texInputs>>

\* fromAddress, err := getSingleValue(brf.Sections["FROM"])
TexFromName ==
    /\ pcTex = "FROM"
    /\ AfterSingleValue(fromSection, "merge")
    /\ outFile' = CreatedFile(pcTex, outFile)
    /\ UNCHANGED <<ctxBuilt, texInputs>>

\* senderInput, contentInput, mergedInput are built
TexMerge ==
    /\ pcTex = "merge"
    /\ ctxBuilt' = TRUE
    /\ TexGoesOn("os.Create")
    /\ outFile' = CreatedFile(pcTex, outFile)
    /\ UNCHANGED texInputs

\* contentToTemplateInput panics
TexMergePanics ==
    /\ pcTex = "merge"
    /\ TexLeaves("panic")
    /\ UNCHANGED <<outFile, ctxBuilt, texInputs>>

\* f, err := os.Create(outFile) returns an error
TexCreateFails ==
    /\ pcTex = "os.Create"
    /\ TexLeaves("error")
    /\ UNCHANGED <<outFile, ctxBuilt, texInputs>>

\* f, err := os.Create(outFile): the file exists and is empty
TexCreate ==
    /\ pcTex = "os.Create"
    /\ outFile' = CreatedFile(pcTex, outFile)
    /\ TexGoesOn("Execute")
    /\ UNCHANGED <<ctxBuilt, texInputs>>

\* err = tmpl.Execute(w, mergedInput) returns an error
TexExecuteFails ==
    /\ pcTex = "Execute"
    /\ outFile' \in {"empty", "partial"}
    /\ TexLeaves("error")
    /\ UNCHANGED <<ctxBuilt, texInputs>>

\* tmpl.Execute, w.Flush(), return nil
TexExecute ==
    /\ pcTex = "Execute"
    /\ outFile' = "written"
    /\ TexLeaves("nil")
    /\ UNCHANGED <<ctxBuilt, texInputs>>

-----------------------------------------------------------------------------
(* Specifications: one per component, the others idle *)

\* every component around the pipeline at rest
ToolsIdle == ParseIdle /\ ExecIdle /\ BuildIdle /\ TexIdle

otherThanBrf == <<trimVars, mergeVars, runVars, markupVars, gatewayVars, contentVars,
      addressVars, toolVars>>
InitBrf ==
    BrfInit /\ TrimIdle /\ MergeIdle /\ RunIdle /\ MarkupIdle /\ GatewayIdle
    /\ ContentIdle /\ AddressIdle /\ ToolsIdle
NextBrf == CallCreateBrf /\ UNCHANGED otherThanBrf
SpecBrf == InitBrf /\ [][NextBrf]_vars

otherThanTrim == <<brfVars, mergeVars, runVars, markupVars, gatewayVars, contentVars,
      addressVars, toolVars>>
InitTrim ==
    TrimInit /\ BrfIdle /\ MergeIdle /\ RunIdle /\ MarkupIdle /\ GatewayIdle
    /\ ContentIdle /\ AddressIdle /\ ToolsIdle
NextTrim ==
    \/ CallTrim /\ UNCHANGED otherThanTrim
    \/ CallGetSingleValue /\ UNCHANGED otherThanTrim
SpecTrim == InitTrim /\ [][NextTrim]_vars

otherThanMerge == <<brfVars, trimVars, runVars, markupVars, gatewayVars, contentVars,
      addressVars, toolVars>>
InitMerge ==
    MergeInit /\ BrfIdle /\ TrimIdle /\ RunIdle /\ MarkupIdle /\ GatewayIdle
    /\ ContentIdle /\ AddressIdle /\ ToolsIdle
NextMerge == CallMerge /\ UNCHANGED otherThanMerge
SpecMerge == InitMerge /\ [][NextMerge]_vars

otherThanRun == <<brfVars, trimVars, mergeVars, markupVars, gatewayVars, contentVars,
      addressVars, toolVars>>
InitRun ==
    RunInit /\ BrfIdle /\ TrimIdle /\ MergeIdle /\ MarkupIdle /\ GatewayIdle
    /\ ContentIdle /\ AddressIdle /\ ToolsIdle
NextRun == RunMerge /\ UNCHANGED otherThanRun
SpecRun == InitRun /\ [][NextRun]_vars

otherThanMarkup == <<brfVars, trimVars, mergeVars, runVars, gatewayVars, contentVars,
      addressVars, toolVars>>
InitMarkup ==
    MarkupInit /\ BrfIdle /\ TrimIdle /\ MergeIdle /\ RunIdle /\ GatewayIdle
    /\ ContentIdle /\ AddressIdle /\ ToolsIdle
NextMarkup ==
    \/ EnterConvertMarkup /\ UNCHANGED otherThanMarkup
    \/ NormalLine /\ UNCHANGED otherThanMarkup
    \/ BlockNoEnd /\ UNCHANGED otherThanMarkup
    \/ BlockNoConverter /\ UNCHANGED otherThanMarkup
    \/ BlockSlicePanic /\ UNCHANGED otherThanMarkup
    \/ BlockExecutePanics /\ UNCHANGED otherThanMarkup
    \/ BlockConvertError /\ UNCHANGED otherThanMarkup
    \/ BlockConverted /\ UNCHANGED otherThanMarkup
    \/ ReturnString /\ UNCHANGED otherThanMarkup
SpecMarkup == InitMarkup /\ [][NextMarkup]_vars

otherThanGateway == <<brfVars, trimVars, mergeVars, runVars, markupVars, contentVars,
      addressVars, toolVars>>
InitGateway ==
    GatewayInit /\ BrfIdle /\ TrimIdle /\ MergeIdle /\ RunIdle /\ MarkupIdle
    /\ ContentIdle /\ AddressIdle /\ ToolsIdle
NextGateway ==
    \/ CallNewConverter /\ UNCHANGED otherThanGateway
    \/ ConvertRefused /\ UNCHANGED otherThanGateway
    \/ ConvertExecutePanics /\ UNCHANGED otherThanGateway
    \/ ConvertExecuteFails /\ UNCHANGED otherThanGateway
    \/ ConvertExecuted /\ UNCHANGED otherThanGateway
SpecGateway == InitGateway /\ [][NextGateway]_vars

\* contentToTemplateInput, with convertMarkup as its callee
otherThanContent ==
    <<brfVars, trimVars, mergeVars, runVars, gatewayVars, addressVars,
      toolVars>>
calleeOfContent == <<otherThanContent, markupVars>>
callerOfMarkup == <<otherThanContent, contentVars>>
InitContent ==
    ContentInit /\ MarkupNotCalled
    /\ BrfIdle /\ TrimIdle /\ MergeIdle /\ RunIdle /\ GatewayIdle
    /\ AddressIdle /\ ToolsIdle
NextContent ==
    \/ SectionTrimPanics /\ UNCHANGED calleeOfContent
    \/ OtherSection /\ UNCHANGED calleeOfContent
    \/ ContentWholeNoConverter /\ UNCHANGED calleeOfContent
    \/ ContentWholeExecutePanics /\ UNCHANGED calleeOfContent
    \/ ContentWholeConvertError /\ UNCHANGED calleeOfContent
    \/ ContentWholeConverted /\ UNCHANGED calleeOfContent
    \/ ContentMixedCall /\ UNCHANGED otherThanContent
    \/ EnterConvertMarkup /\ UNCHANGED callerOfMarkup
    \/ NormalLine /\ UNCHANGED callerOfMarkup
    \/ BlockNoEnd /\ UNCHANGED callerOfMarkup
    \/ BlockNoConverter /\ UNCHANGED callerOfMarkup
    \/ BlockSlicePanic /\ UNCHANGED callerOfMarkup
    \/ BlockExecutePanics /\ UNCHANGED callerOfMarkup
    \/ BlockConvertError /\ UNCHANGED callerOfMarkup
    \/ BlockConverted /\ UNCHANGED callerOfMarkup
    \/ ReturnString /\ UNCHANGED callerOfMarkup
    \/ ContentMixedReturn /\ UNCHANGED otherThanContent
    \/ ContentMixedPanics /\ UNCHANGED otherThanContent
    \/ ContentReturn /\ UNCHANGED calleeOfContent
SpecContent == InitContent /\ [][NextContent]_vars

otherThanAddress ==
    <<brfVars, trimVars, mergeVars, runVars, markupVars, gatewayVars,
      contentVars, toolVars>>
InitAddress ==
    AddressInit /\ BrfIdle /\ TrimIdle /\ MergeIdle /\ RunIdle /\ MarkupIdle
    /\ GatewayIdle /\ ContentIdle /\ ToolsIdle
NextAddress == CallReadFromFile /\ UNCHANGED otherThanAddress
SpecAddress == InitAddress /\ [][NextAddress]_vars

\* every component of the document pipeline at rest
CoreIdle ==
    BrfIdle /\ TrimIdle /\ MergeIdle /\ RunIdle /\ MarkupIdle /\ GatewayIdle
    /\ ContentIdle /\ AddressIdle

otherThanParse == <<coreVars, execVars, buildVars, texVars>>
InitParse == ParseInit /\ CoreIdle /\ ExecIdle /\ BuildIdle /\ TexIdle
NextParse == CallParse /\ UNCHANGED otherThanParse
SpecParse == InitParse /\ [][NextParse]_vars

otherThanExec == <<coreVars, parseVars, buildVars, texVars>>
InitExec == ExecInit /\ CoreIdle /\ ParseIdle /\ BuildIdle /\ TexIdle
NextExec ==
    \/ ExecNoWorkingDir /\ UNCHANGED otherThanExec
    \/ ExecGetwdFails /\ UNCHANGED otherThanExec
    \/ ExecGetwd /\ UNCHANGED otherThanExec
    \/ ExecChdirFails /\ UNCHANGED otherThanExec
    \/ ExecChdir /\ UNCHANGED otherThanExec
    \/ ExecIndexPanics /\ UNCHANGED otherThanExec
    \/ ExecFails /\ UNCHANGED otherThanExec
    \/ ExecSucceeds /\ UNCHANGED otherThanExec
    \/ ExecReturn /\ UNCHANGED otherThanExec
    \/ ExecChdirBack /\ UNCHANGED otherThanExec
    \/ ExecChdirBackFails /\ UNCHANGED otherThanExec
SpecExec == InitExec /\ [][NextExec]_vars

otherThanBuild == <<coreVars, parseVars, execVars, texVars>>
InitBuild == BuildInit /\ CoreIdle /\ ParseIdle /\ ExecIdle /\ TexIdle
NextBuild ==
    \/ PreviewNoCommand /\ UNCHANGED otherThanBuild
    \/ PreviewNeedsPdf /\ UNCHANGED otherThanBuild
    \/ PreviewPdfCurrent /\ UNCHANGED otherThanBuild
    \/ PdfNoCommand /\ UNCHANGED otherThanBuild
    \/ PdfNeedsTex /\ UNCHANGED otherThanBuild
    \/ PdfTexCurrent /\ UNCHANGED otherThanBuild
    \/ TexRunOk /\ UNCHANGED otherThanBuild
    \/ TexRunFails /\ UNCHANGED otherThanBuild
    \/ PdfExecOk /\ UNCHANGED otherThanBuild
    \/ PdfExecFails /\ UNCHANGED otherThanBuild
    \/ PreviewExecOk /\ UNCHANGED otherThanBuild
    \/ PreviewExecFails /\ UNCHANGED otherThanBuild
SpecBuild == InitBuild /\ [][NextBuild]_vars

otherThanTex == <<coreVars, parseVars, execVars, buildVars>>
InitTex == TexInit /\ CoreIdle /\ ParseIdle /\ ExecIdle /\ BuildIdle
NextTex ==
    \/ TexReadBrfFile /\ UNCHANGED otherThanTex
    \/ TexTemplateName /\ UNCHANGED otherThanTex
    \/ TexParseFiles /\ UNCHANGED otherThanTex
    \/ TexReadFromFile /\ UNCHANGED otherThanTex
    \/ TexFromName /\ UNCHANGED otherThanTex
    \/ TexMerge /\ UNCHANGED otherThanTex
    \/ TexMergePanics /\ UNCHANGED otherThanTex
    \/ TexCreateFails /\ UNCHANGED otherThanTex
    \/ TexCreate /\ UNCHANGED otherThanTex
    \/ TexExecuteFails /\ UNCHANGED otherThanTex
    \/ TexExecute /\ UNCHANGED otherThanTex
SpecTex == InitTex /\ [][NextTex]_vars

-----------------------------------------------------------------------------
(* Properties of parser.CreateBrf *)

\* a section marker whose name is k letters long: a dot, k uppercase
\* letters, then only white space
IsMarkerOfLen(line, k) ==
    /\ k >= 1
    /\ Len(line) >= k + 1
    /\ line[1] = "."
    /\ \A j \in 2..(k + 1) : line[j] \in UpperChars
    /\ \A j \in (k + 2)..Len(line) : line[j] \in ReSpace

IsMarker(line) == \E k \in 1..Len(line) : IsMarkerOfLen(line, k)

MarkerName(line) ==
    SubSeq(line, 2, 1 + (CHOOSE k \in 1..Len(line) : IsMarkerOfLen(line, k)))

\* the (1-based) positions of the marker lines of brfLines
Markers == {p \in 1..Len(brfLines) : IsMarker(brfLines[p])}

\* the position of the next marker after p, or one past the end of input
NextMarker(p) ==
    IF \E q \in Markers : q > p
    THEN CHOOSE q \in Markers : q > p /\ \A r \in Markers : r > p => q <= r
    ELSE Len(brfLines) + 1

\* no later marker line names the same section
IsLastMarkerOfName(p) ==
    \A q \in Markers : q > p => MarkerName(brfLines[q]) # MarkerName(brfLines[p])

ExampleBrfLines == << <<".", "A">>, <<"x">>, <<".", "B">>, <<"x">> >>

\* C1: CreateBrf maps each section name that occurs on a marker line to
\* exactly the lines strictly after its marker (the last one of that name)
\* and strictly before the next marker line, or up to the end of input; no
\* other name has an entry; for '.A', content, '.B', content the result is
\* exactly the entries A and B with those ranges.
C1_SectionRanges ==
    pcBrf = "done" =>
        /\ DOMAIN brf.Sections = {MarkerName(brfLines[p]) : p \in Markers}
        /\ \A p \in Markers :
              IsLastMarkerOfName(p) =>
                  brf.Sections[MarkerName(brfLines[p])]
                      = SubSeq(brfLines, p + 1, NextMarker(p) - 1)
        /\ brfLines = ExampleBrfLines =>
              brf.Sections = (<<"A">> :> << <<"x">> >>) @@ (<<"B">> :> << <<"x">> >>)

\* C1: CreateBrf has run on '.A', content, '.B', content
C1_Witness == pcBrf = "done" /\ brfLines = ExampleBrfLines

\* C18: when no line of the input is a section marker, CreateBrf yields an
\* empty section mapping (CreateBrf has no error result, and ReadBrfFile
\* returns nil as error after it).
C18_NoMarkerNoSection ==
    (pcBrf = "done" /\ Markers = {}) => DOMAIN brf.Sections = {}

\* C18: CreateBrf has run on a non-empty input without any marker line
C18_Witness == pcBrf = "done" /\ Markers = {} /\ Len(brfLines) >= 2

\* the positions of the lines that follow marker p up to the next marker
RangeAfter(p) == (p + 1)..(NextMarker(p) - 1)

\* the lines held by the section mapping, under any name
LinesInSections ==
    UNION { {brf.Sections[n][j] : j \in 1..Len(brf.Sections[n])} :
            n \in DOMAIN brf.Sections }

\* the lines that follow the last marker of some name
LinesAfterLastMarkers ==
    UNION { {brfLines[j] : j \in RangeAfter(p)} :
            p \in {q \in Markers : IsLastMarkerOfName(q)} }

\* C19: when a section name occurs on several marker lines, the mapping
\* holds for that name only the lines that follow its last marker; the
\* lines that follow the earlier markers are held under no name (unless the
\* same line also follows a last marker).
C19_LastMarkerWins ==
    pcBrf = "done" =>
        /\ \A p \in Markers :
              IsLastMarkerOfName(p) =>
                  brf.Sections[MarkerName(brfLines[p])]
                      = [j \in 1..(NextMarker(p) - p - 1) |-> brfLines[p + j]]
        /\ LinesInSections = LinesAfterLastMarkers
        /\ \A p \in Markers :
              ~IsLastMarkerOfName(p) =>
                  \A j \in RangeAfter(p) :
                      brfLines[j] \notin LinesAfterLastMarkers
                          => brfLines[j] \notin LinesInSections

\* C19: CreateBrf has run on an input that names a section twice, with a
\* line after the first marker that follows no last marker
C19_Witness ==
    /\ pcBrf = "done"
    /\ \E p \in Markers :
          /\ ~IsLastMarkerOfName(p)
          /\ \E j \in RangeAfter(p) : brfLines[j] \notin LinesAfterLastMarkers

-----------------------------------------------------------------------------
(* Properties of TexCommand.convertMarkup *)

\* the lines strictly between the start marker and the end marker of the
\* block blocks[k]
InnerLines(k) == SubSeq(a, blocks[k].i + 2, blocks[k].blockEnd)

\* C2: when a block start line is followed by a block end line and a
\* converter is configured for the type, the converter is called with
\* exactly the lines strictly between the two markers, all of them, in
\* order.
C2_ConverterGetsInnerLines ==
    \A k \in 1..Len(blocks) :
        blocks[k].called => blocks[k].lines = InnerLines(k)

\* how often line idx (0-based) of a was written to the builder as text
TimesWritten(idx) == Cardinality({p \in 1..Len(b) : b[p].from = idx})

\* the lines of a written to the builder, in the order written
RECURSIVE LinesWritten(_)
LinesWritten(pieces) ==
    IF pieces = <<>>
    THEN <<>>
    ELSE IF pieces[1].from >= 0
    THEN <<pieces[1].from>> \o LinesWritten(Tail(pieces))
    ELSE LinesWritten(Tail(pieces))

InOriginalOrder(idxs) ==
    \A p, q \in 1..Len(idxs) : p < q => idxs[p] < idxs[q]

\* the (0-based) index of the first block start line after index idx, or
\* len(a)
NextBlockStart(idx) ==
    LET later == {x \in (idx + 1)..(Len(a) - 1) : BlockStartMatch(a[x + 1]) # <<>>}
    IN  IF later = {}
        THEN Len(a)
        ELSE CHOOSE x \in later : \A y \in later : x <= y

\* every line of a with an index in idxs is in the builder at most once,
\* and exactly once when convertMarkup has returned
WrittenOnce(idxs) ==
    \A idx \in idxs :
        /\ TimesWritten(idx) <= 1
        /\ pcMarkup = "done" => TimesWritten(idx) = 1

\* C3: a closed block that cannot be converted (no converter, or the
\* converter returns an error) is emitted verbatim with its delimiters: the
\* start marker, every inner line and the end marker are in the output each
\* exactly once and in their original order, and the lines after the block
\* (up to the next block start) follow unchanged.
C3_FailedBlockVerbatimOnce ==
    \A k \in 1..Len(blocks) :
        blocks[k].outcome \in {"noconverter", "error"} =>
            /\ WrittenOnce(blocks[k].i..blocks[k].blockEnd)
            /\ WrittenOnce((blocks[k].blockEnd + 1)..(NextBlockStart(blocks[k].blockEnd) - 1))
            /\ InOriginalOrder(LinesWritten(b))

\* C4: a block start line with no block end line after it: the lines from
\* the start marker to the end of the section are appended once and the scan
\* ends; no line at or after the start marker is appended a second time.
C4_UnterminatedBlockOnce ==
    \A k \in 1..Len(blocks) :
        blocks[k].outcome = "noend" =>
            /\ WrittenOnce(blocks[k].i..(Len(a) - 1))
            /\ k = Len(blocks)

-----------------------------------------------------------------------------
(* Properties of TexCommand.run and merge *)

\* C5 as the specification states it: for a key of both mappings the
\* rendering context holds the content-derived value.
C5_ContentOverridesAddress ==
    pcRun = "merged" =>
        \A k \in (DOMAIN senderInput) \cap (DOMAIN contentInput) :
            mergedInput[k] = contentInput[k]

\* C5, amended: for a key of both mappings the rendering context built by
\* run holds the address-derived value: the section content is the base and
\* the address mapping overrides it.
C5_AddressOverridesContent ==
    pcRun = "merged" =>
        \A k \in (DOMAIN senderInput) \cap (DOMAIN contentInput) :
            mergedInput[k] = senderInput[k]

\* C5: run has merged two mappings that disagree on a common key
C5_Witness ==
    /\ pcRun = "merged"
    /\ \E k \in (DOMAIN senderInput) \cap (DOMAIN contentInput) :
          senderInput[k] # contentInput[k]

ExampleM1 == ("a" :> "1") @@ ("b" :> "2")
ExampleM2 == ("b" :> "3") @@ ("c" :> "4")

\* C6: merge(m1, m2) returns a mapping whose key set is the union of both
\* key sets and whose value for a key is m2's if m2 has the key and m1's
\* otherwise; merge({a:1,b:2},{b:3,c:4}) = {a:1,b:3,c:4}; the call changes
\* neither m1 nor m2.
C6_MergeSecondWins ==
    /\ [](pcMerge = "done" =>
            /\ DOMAIN m = (DOMAIN m1) \cup (DOMAIN m2)
            /\ \A k \in DOMAIN m :
                  m[k] = IF k \in DOMAIN m2 THEN m2[k] ELSE m1[k]
            /\ (m1 = ExampleM1 /\ m2 = ExampleM2) =>
                  m = ("a" :> "1") @@ ("b" :> "3") @@ ("c" :> "4"))
    /\ [][m1' = m1 /\ m2' = m2]_vars

\* C6: merge has run on maps with a common key and a key of each alone
C6_Witness == pcMerge = "done" /\ m1 = ExampleM1 /\ m2 = ExampleM2

-----------------------------------------------------------------------------
(* Properties of trimSurroundingEmptyLines and getSingleValue *)

\* a line without non-whitespace content
IsBlank(line) == \A j \in 1..Len(line) : line[j] \in GoSpace

NonBlank == {p \in 1..Len(lines) : ~IsBlank(lines[p])}

FirstNonBlank == CHOOSE p \in NonBlank : \A q \in NonBlank : p <= q
LastNonBlank == CHOOSE p \in NonBlank : \A q \in NonBlank : q <= p

\* the sub-range from the first to the last non-blank line, empty when
\* there is none
TrimmedRange ==
    IF NonBlank = {} THEN <<>> ELSE SubSeq(lines, FirstNonBlank, LastNonBlank)

\* a non-blank line without its leading and trailing white space
Stripped(line) ==
    LET nonSpace == {j \in 1..Len(line) : line[j] \notin GoSpace}
    IN  SubSeq(line,
               CHOOSE j \in nonSpace : \A n \in nonSpace : j <= n,
               CHOOSE j \in nonSpace : \A n \in nonSpace : n <= j)

\* C7: trimSurroundingEmptyLines returns an empty range, without failing,
\* when no line of its input has non-whitespace content (the empty input,
\* only blank lines).
C7_TrimOfBlankIsEmpty ==
    (pcTrim = "trimmed" /\ NonBlank = {}) =>
        (~trimmed.panic /\ trimmed.val = <<>>)

\* C8: getSingleValue returns the error "no content found" when no line is
\* left after trimming (the empty sequence, only blank lines); it returns
\* with that error rather than aborting.
C8_SingleOfBlankIsError ==
    (pcTrim = "single" /\ NonBlank = {}) =>
        (~single.panic /\ single.err = ErrNoLine /\ single.val = <<>>)

\* C9: for an input with a non-blank line, getSingleValue returns that line
\* without surrounding white space and no error if and only if exactly one
\* line remains after trimming; if two or more remain it returns an error
\* and the empty string.
C9_SingleValue ==
    (pcTrim = "single" /\ NonBlank # {}) =>
        /\ ~single.panic
        /\ single.err = ErrNone <=> Len(TrimmedRange) = 1
        /\ Len(TrimmedRange) = 1 => single.val = Stripped(TrimmedRange[1])
        /\ Len(TrimmedRange) >= 2 => (single.err # ErrNone /\ single.val = <<>>)

\* C9: getSingleValue has returned the one line, which had white space
\* around it and blank lines before and after
C9_Witness ==
    /\ pcTrim = "single"
    /\ single.err = ErrNone
    /\ Len(lines) >= 3
    /\ Len(TrimmedRange) = 1
    /\ TrimmedRange[1] # Stripped(TrimmedRange[1])

ExampleTrimLines == << <<>>, <<"x">>, <<>>, <<" ", "y", " ">>, <<>> >>

\* C10: trimSurroundingEmptyLines is idempotent for every line sequence,
\* and its result is the sub-range from the first to the last non-blank
\* line with the blank lines in between kept.
C10_TrimIdempotent ==
    pcTrim = "trimmed" =>
        /\ ~trimmed.panic
        /\ trimmed.val = TrimmedRange
        /\ trimSurroundingEmptyLines(trimmed.val) = trimmed
        /\ lines = ExampleTrimLines =>
              trimmed.val = << <<"x">>, <<>>, <<" ", "y", " ">> >>

-----------------------------------------------------------------------------
(* Properties of markup.NewConverter and Converter.Convert *)

\* the registry holds a non-empty command line under key
HasCommand(key) == key \in DOMAIN cfgConverters /\ cfgConverters[key] # <<>>

\* the placeholder %m stands at position j of s
PlaceholderAt(s, j) == j + 1 <= Len(s) /\ s[j] = "%" /\ s[j + 1] = "m"

RECURSIVE Flatten(_)
Flatten(ss) == IF ss = <<>> THEN <<>> ELSE Head(ss) \o Flatten(Tail(ss))

\* s with the text t in the place of every placeholder
Expanded(s, t) ==
    Flatten([j \in 1..Len(s) |->
                IF PlaceholderAt(s, j) THEN t
                ELSE IF j > 1 /\ PlaceholderAt(s, j - 1) THEN <<>>
                ELSE <<s[j]>>])

\* C12: NewConverter uses the non-empty command registered for exactly the
\* markup type, unchanged; otherwise the non-empty wildcard command with
\* every %m replaced by the markup type; otherwise it returns an error and
\* no converter.  An exact entry always wins over the wildcard.
C12_ResolutionOrder ==
    pcGateway \in {"created", "noconverter", "returned", "panic"} =>
        /\ HasCommand(reqMarkupType) =>
              /\ ~mc.err
              /\ mc.converterCmd = cfgConverters[reqMarkupType]
        /\ (~HasCommand(reqMarkupType) /\ HasCommand(Wildcard)) =>
              /\ ~mc.err
              /\ mc.converterCmd = Expanded(cfgConverters[Wildcard], reqMarkupType)
        /\ (~HasCommand(reqMarkupType) /\ ~HasCommand(Wildcard)) =>
              /\ mc.err
              /\ pcGateway = "noconverter"
        /\ ~mc.err => mc.markupType = reqMarkupType

\* C12: NewConverter has resolved a type that has both an exact entry and
\* a different wildcard entry with placeholders
C12_Witness ==
    /\ pcGateway = "created"
    /\ HasCommand(reqMarkupType)
    /\ HasCommand(Wildcard)
    /\ cfgConverters[Wildcard] = CmdTwice

\* C13: NewConverter followed by Convert never crashes: whatever the
\* registry holds, the call sequence ends with a text and no error or with
\* the empty text and an error.
C13_GatewayNeverCrashes ==
    /\ pcGateway # "panic"
    /\ pcGateway = "returned" => (converted.err => converted.text = <<>>)

-----------------------------------------------------------------------------
(* Properties of TexCommand.contentToTemplateInput *)

\* the positions of the non-blank lines of the section key
NonBlankOf(key) ==
    {p \in 1..Len(brfSections[key]) : ~IsBlank(brfSections[key][p])}

FirstOf(key) == CHOOSE p \in NonBlankOf(key) : \A q \in NonBlankOf(key) : p <= q
LastOf(key) == CHOOSE p \in NonBlankOf(key) : \A q \in NonBlankOf(key) : q <= p

\* the lines of the section key from its first to its last non-blank line
TrimmedLinesOf(key) ==
    IF NonBlankOf(key) = {}
    THEN <<>>
    ELSE [j \in 1..(LastOf(key) - FirstOf(key) + 1) |->
             brfSections[key][FirstOf(key) + j - 1]]

\* the lines of the section key after its first non-blank line, up to the
\* last non-blank line
LinesAfterFirstOf(key) ==
    [j \in 1..(LastOf(key) - FirstOf(key)) |-> brfSections[key][FirstOf(key) + j]]

\* the lines ls with sep between each two of them
JoinedWith(ls, sep) ==
    Flatten([j \in 1..Len(ls) |-> IF j = 1 THEN ls[j] ELSE sep \o ls[j]])

\* a markup declaration whose type is k letters long: a dot, k lower-case
\* letters, then only white space
IsDeclarationOfLen(line, k) ==
    /\ k >= 1
    /\ Len(line) >= k + 1
    /\ line[1] = "."
    /\ \A j \in 2..(k + 1) : line[j] \in LowerChars
    /\ \A j \in (k + 2)..Len(line) : line[j] \in ReSpace

IsDeclaration(line) == \E k \in 1..Len(line) : IsDeclarationOfLen(line, k)

DeclaredType(line) ==
    SubSeq(line, 2, 1 + (CHOOSE k \in 1..Len(line) : IsDeclarationOfLen(line, k)))

\* the range loop has taken up the section key
TakenUp(key) == \E j \in 1..Len(visited) : visited[j] = key

\* the first non-blank line of CONTENT is a markup declaration
WholeSectionMode ==
    /\ ContentKey \in DOMAIN brfSections
    /\ NonBlankOf(ContentKey) # {}
    /\ IsDeclaration(brfSections[ContentKey][FirstOf(ContentKey)])

ContentType == DeclaredType(brfSections[ContentKey][FirstOf(ContentKey)])

\* the configuration has a command for the markup type t
ConverterConfigured(t) ==
    \E key \in {t, <<"*">>} :
        key \in DOMAIN MarkupConverters /\ MarkupConverters[key] # <<>>

\* C11: contentToTemplateInput never fails: for every document, sections
\* without lines or with blank lines only included, and every outcome of
\* the converters it completes, and the mapping it returns has exactly one
\* entry per section name.
C11_ContentInputNeverFails ==
    /\ pcContent # "panic"
    /\ pcContent = "done" => DOMAIN rContent = DOMAIN brfSections

\* C14: when the first non-blank line of CONTENT declares a markup type,
\* the converter of that type is called exactly once, with the lines after
\* the declaration line up to the last non-blank line; the block scanner
\* does not run, so no block delimiter among these lines is acted on; and
\* the converter's output becomes the value.
C14_WholeSectionMode ==
    (WholeSectionMode /\ TakenUp(ContentKey)) =>
        /\ pcMarkup = "idle" /\ blocks = <<>>
        /\ Len(wholeCalls) = IF ConverterConfigured(ContentType) THEN 1 ELSE 0
        /\ \A j \in 1..Len(wholeCalls) :
              /\ wholeCalls[j].markupType = ContentType
              /\ wholeCalls[j].lines = LinesAfterFirstOf(ContentKey)
              /\ wholeCalls[j].outcome = "ok" => rawContent[ContentKey] \in ConvertedTexts

\* C14: the converter has been called for a whole section that holds a
\* block start line and a block end line after its declaration
C14_Witness ==
    /\ pcContent = "done"
    /\ WholeSectionMode
    /\ Len(wholeCalls) = 1
    /\ wholeCalls[1].outcome = "ok"
    /\ \E j \in 1..Len(wholeCalls[1].lines) :
          wholeCalls[1].lines[j] = <<".", "m", "-", "-">>
    /\ \E j \in 1..Len(wholeCalls[1].lines) :
          wholeCalls[1].lines[j] = <<"-", "-">>

\* whole-section conversion was not possible: no converter is configured,
\* or the call of the converter returned an error
WholeSectionFailed ==
    /\ WholeSectionMode
    /\ ContentKey \in DOMAIN rawContent
    /\ \/ ~ConverterConfigured(ContentType)
       \/ \E j \in 1..Len(wholeCalls) : wholeCalls[j].outcome = "error"

\* C15: when whole-section conversion is not possible, the value of
\* CONTENT (before the substitution of special characters) is its trimmed
\* lines, declaration line included, joined with a newline, and the loop
\* goes on with the remaining sections: CONTENT does not end the
\* processing, and a completed run has an entry for every section.
C15_WholeSectionFallback ==
    WholeSectionFailed =>
        /\ rawContent[ContentKey] = JoinedWith(TrimmedLinesOf(ContentKey), <<"\n">>)
        /\ pcContent \in {"range", "done", "panic"}
        /\ pcContent = "panic" => visited[Len(visited)] # ContentKey
        /\ pcContent = "done" => DOMAIN rContent = DOMAIN brfSections

\* C15: the converter's call failed for a CONTENT of several lines, and
\* the section taken up after it has got its value
C15_Witness ==
    /\ WholeSectionFailed
    /\ Len(wholeCalls) = 1
    /\ Len(TrimmedLinesOf(ContentKey)) >= 2
    /\ visited = <<ContentKey, OtherKey>>
    /\ OtherKey \in DOMAIN rContent

\* C20: every section other than CONTENT gets as its value (before the
\* substitution of special characters) its trimmed lines joined with two
\* backslashes and a newline, and neither the block scanner nor a
\* converter is invoked for it, whatever its lines look like.
C20_OtherSectionsJoined ==
    /\ \A j \in 1..Len(visited) :
          visited[j] # ContentKey =>
              /\ visited[j] \in DOMAIN rawContent
              /\ rawContent[visited[j]]
                    = JoinedWith(TrimmedLinesOf(visited[j]), <<"\\", "\\", "\n">>)
    /\ ~TakenUp(ContentKey) =>
          pcMarkup = "idle" /\ blocks = <<>> /\ wholeCalls = <<>>

-----------------------------------------------------------------------------
(* Properties of address.ReadFromFile *)

\* s without leading and trailing white space
Core(s) == IF IsBlank(s) THEN <<>> ELSE Stripped(s)

FileLine(p) == Core(fileLines[p])

IsCommentLine(p) == Len(FileLine(p)) >= 1 /\ FileLine(p)[1] = "#"

\* the line at p reads address:<id>
IsAddressLine(p) ==
    /\ Len(FileLine(p)) >= 8
    /\ [j \in 1..8 |-> FileLine(p)[j]] = <<"a", "d", "d", "r", "e", "s", "s", ":">>

AddressLines == {p \in 1..Len(fileLines) : IsAddressLine(p)}

\* a line that is neither blank, nor a comment, nor an address line
IsFieldLine(p) ==
    ~IsBlank(fileLines[p]) /\ ~IsCommentLine(p) /\ ~IsAddressLine(p)

HasColon(p) == \E j \in 1..Len(FileLine(p)) : FileLine(p)[j] = ":"

\* a field line before the first address line, or one without a colon
Offending(p) ==
    /\ IsFieldLine(p)
    /\ (\A q \in AddressLines : p < q) \/ ~HasColon(p)

\* C16: ReadFromFile returns an error, and a nil map, exactly when the
\* file has a line that is neither blank, nor a comment, nor an address
\* line and that stands before the first address line or has no colon;
\* records read before that line are not returned; a file of blank lines
\* and comments is read without error.
C16_FailFast ==
    pcAddress = "done" =>
        /\ readResult.err <=> (\E p \in 1..Len(fileLines) : Offending(p))
        /\ readResult.err => readResult.val = <<>>
        /\ ~readResult.err => Len(readResult.val) = 1

\* C16: ReadFromFile has failed on a file with a comment and a complete
\* record before the offending line
C16_Witness ==
    /\ pcAddress = "done"
    /\ readResult.err
    /\ \E p, q, e \in 1..Len(fileLines) :
          /\ IsAddressLine(p) /\ IsFieldLine(q) /\ HasColon(q) /\ Offending(e)
          /\ p < q /\ q < e
    /\ \E p \in 1..Len(fileLines) : IsCommentLine(p)

\* the record id an address line names
IdOf(p) == Core(SubSeq(FileLine(p), 9, Len(FileLine(p))))

\* no later address line names the same id
IsLastOfId(p) == \A q \in AddressLines : q > p => IdOf(q) # IdOf(p)

\* the position of the next address line after p, or one past the end
NextAddressLine(p) ==
    IF \E q \in AddressLines : q > p
    THEN CHOOSE q \in AddressLines : q > p /\ \A n \in AddressLines : n > p => q <= n
    ELSE Len(fileLines) + 1

FirstColon(p) ==
    CHOOSE j \in 1..Len(FileLine(p)) :
        /\ FileLine(p)[j] = ":"
        /\ \A n \in 1..(j - 1) : FileLine(p)[n] # ":"

KeyOf(p) == Core(SubSeq(FileLine(p), 1, FirstColon(p) - 1))
ValueOf(p) == Core(SubSeq(FileLine(p), FirstColon(p) + 1, Len(FileLine(p))))

\* the field lines of the record opened at p
FieldLinesOf(p) == {q \in (p + 1)..(NextAddressLine(p) - 1) : IsFieldLine(q)}

\* the positions in S in ascending order
Ascending(S) ==
    [x \in 1..Cardinality(S) |->
        CHOOSE q \in S : Cardinality({n \in S : n < q}) = x - 1]

\* the values the field lines of the record opened at p give to key, in
\* file order
ValuesOf(p, key) ==
    LET at == Ascending({q \in FieldLinesOf(p) : KeyOf(q) = key})
    IN  [x \in 1..Len(at) |-> ValueOf(at[x])]

\* C17: the map ReadFromFile returns has a record for every id named on
\* an address line; the record of an id holds exactly the fields of the
\* key: value lines between its address line (the last one naming the id)
\* and the next address line, each key with all its values in file order;
\* an address line directly followed by another one gives a record
\* without fields.
C17_RecordsHoldTheirFields ==
    (pcAddress = "done" /\ ~readResult.err) =>
        LET senderAddresses == readResult.val[1]
        IN  /\ DOMAIN senderAddresses = {IdOf(p) : p \in AddressLines}
            /\ \A p \in AddressLines :
                  IsLastOfId(p) =>
                      LET fields == senderAddresses[IdOf(p)].Fields
                      IN  /\ DOMAIN fields = {KeyOf(q) : q \in FieldLinesOf(p)}
                          /\ \A key \in DOMAIN fields :
                                fields[key] = ValuesOf(p, key)
                          /\ NextAddressLine(p) = p + 1 => fields = <<>>

\* C17: ReadFromFile has returned two records for two consecutive address
\* lines, the second with a key that has two values
C17_Witness ==
    /\ pcAddress = "done"
    /\ ~readResult.err
    /\ \E p \in AddressLines :
          /\ p + 1 \in AddressLines
          /\ IdOf(p) # IdOf(p + 1)
          /\ readResult.val[1][IdOf(p)].Fields = <<>>
          /\ \E key \in DOMAIN readResult.val[1][IdOf(p + 1)].Fields :
                Len(readResult.val[1][IdOf(p + 1)].Fields[key]) = 2

-----------------------------------------------------------------------------
(* Further properties of TexCommand.convertMarkup *)

\* a block start line whose type is k letters long: a dot, k lower-case
\* letters, two or more dashes, then only white space
IsBlockStartOfLen(line, k) ==
    /\ k >= 1
    /\ Len(line) >= k + 3
    /\ line[1] = "."
    /\ \A j \in 2..(k + 1) : line[j] \in LowerChars
    /\ \E d \in (k + 3)..Len(line) :
          /\ \A j \in (k + 2)..d : line[j] = "-"
          /\ \A j \in (d + 1)..Len(line) : line[j] \in ReSpace

IsBlockStart(line) == \E k \in 1..Len(line) : IsBlockStartOfLen(line, k)

BlockTypeOf(line) ==
    SubSeq(line, 2, 1 + (CHOOSE k \in 1..Len(line) : IsBlockStartOfLen(line, k)))

\* C24: after a closed block has been converted, the output gets the
\* converted text and one newline; from then on neither the start marker,
\* nor an inner line, nor the end marker of the block is appended; the next
\* piece of output comes from the line that follows the end marker, where
\* the scan goes on.
C24_ResumeAfterEndMarker ==
    \A k \in 1..Len(blocks) :
        blocks[k].outcome = "ok" =>
            LET at == blocks[k].at
                next == blocks[k].blockEnd + 1
            IN  /\ Len(b) >= at + 2
                /\ b[at + 1].from = FromConverter
                /\ b[at + 1].text \in ConvertedTexts
                /\ b[at + 2] = [from |-> FromSep, text |-> <<"\n">>]
                /\ \A p \in (at + 1)..Len(b) :
                      b[p].from \notin blocks[k].i..blocks[k].blockEnd
                /\ Len(b) >= at + 3 =>
                      \/ b[at + 3].from = next
                      \/ /\ b[at + 3].from = FromConverter
                         /\ \E n \in 1..Len(blocks) :
                               blocks[n].i = next /\ blocks[n].at = at + 2
                /\ (k = Len(blocks) /\ Len(b) = at + 2 /\ pcMarkup = "loop")
                      => i = next

\* C24: convertMarkup has returned after it converted a block with an inner
\* line and wrote the line that follows the end marker
C24_Witness ==
    /\ pcMarkup = "done"
    /\ \E k \in 1..Len(blocks) :
          /\ blocks[k].outcome = "ok"
          /\ blocks[k].blockEnd >= blocks[k].i + 2
          /\ Len(b) >= blocks[k].at + 3
          /\ b[blocks[k].at + 3].from = blocks[k].blockEnd + 1

NoBlockStart == \A j \in 1..Len(a) : ~IsBlockStart(a[j])

EachLineWithSep == Flatten([j \in 1..Len(a) |-> a[j] \o <<"\n">>])

\* C25 as claimed: for a section of any length, one line included, without
\* a block start line the output is each line followed by a newline.
C25_EveryLineWithSeparator ==
    (pcMarkup = "done" /\ NoBlockStart) => out = EachLineWithSep

\* C25: for a section of two or more lines without a block start line the
\* output is, in order, each line followed by a newline, block end lines
\* and later declaration lines being text like any other; a section of one
\* line is returned as that line, without a newline.
C25_LinesWithSeparatorFromTwo ==
    (pcMarkup = "done" /\ NoBlockStart) =>
        /\ Len(a) >= 2 => out = EachLineWithSep
        /\ Len(a) = 1 => out = a[1]

\* C25: convertMarkup has returned for a section without block start that
\* holds a block end line and a declaration line after its first line
C25_Witness ==
    /\ pcMarkup = "done"
    /\ NoBlockStart
    /\ \E j \in 2..Len(a) : a[j] = <<"-", "-">>
    /\ \E j \in 2..Len(a) : a[j] = <<".", "m">>

\* the configuration has a command for the type of the block blocks[k]
BlockHasConverter(k) == ConverterConfigured(BlockTypeOf(a[blocks[k].i + 1]))

\* C26: when the block end line directly follows the block start line and
\* a converter is configured for the type, no access is out of range: the
\* converter is called with no lines.
C26_EmptyBlockConverted ==
    \A k \in 1..Len(blocks) :
        (blocks[k].blockEnd = blocks[k].i + 1 /\ BlockHasConverter(k)) =>
            /\ blocks[k].called
            /\ blocks[k].lines = <<>>
            /\ pcMarkup # "panic"

\* the block blocks[k] is closed and was not converted: no converter is
\* configured, or the converter returned an error
BlockFailed(k) == blocks[k].outcome \in {"error", "noconverter"}

\* C27 as claimed: the text appended for a failed block is its inner
\* lines joined with newline and a separator; neither the start marker nor
\* the end marker is in the output.
C27_FailedBlockMarkersStripped ==
    \A k \in 1..Len(blocks) :
        BlockFailed(k) =>
            /\ \A p \in (blocks[k].at + 1)..Len(b) :
                  b[p].from \notin {blocks[k].i, blocks[k].blockEnd}
            /\ \A j \in 1..(blocks[k].blockEnd - blocks[k].i - 1) :
                  b[blocks[k].at + 2 * j - 1].from = blocks[k].i + j

\* C27: the text appended for a failed block is the start marker line and
\* the inner lines of the block joined with newline, followed by a
\* separator: the start marker is not stripped, and the end marker is not
\* part of this text.
C27_FailedBlockFromStartMarker ==
    \A k \in 1..Len(blocks) :
        BlockFailed(k) =>
            /\ Len(b) >= blocks[k].at + 2 * (blocks[k].blockEnd - blocks[k].i)
            /\ \A j \in 0..(blocks[k].blockEnd - blocks[k].i - 1) :
                  /\ b[blocks[k].at + 2 * j + 1]
                        = [from |-> blocks[k].i + j, text |-> a[blocks[k].i + j + 1]]
                  /\ b[blocks[k].at + 2 * j + 2]
                        = [from |-> FromSep, text |-> <<"\n">>]

\* C27: the conversion of a block with inner lines has failed
C27_Witness ==
    \E k \in 1..Len(blocks) :
        /\ blocks[k].outcome = "error"
        /\ blocks[k].blockEnd >= blocks[k].i + 2

-----------------------------------------------------------------------------
(* Further properties of parser.CreateBrf *)

\* the positions of the input that the section named n holds when its
\* lines are taken from behind position p
RangeOf(sections, n, p) == (p + 1)..(p + Len(sections[n]))

\* C28: after CreateBrf every section holds a contiguous range of the
\* input lines; no line in a range is a section marker, no position of the
\* input belongs to the ranges of two sections, and the lines before the
\* first marker belong to no range.
C28_SectionsPartitionInput ==
    pcBrf = "done" =>
        \E f \in [DOMAIN brf.Sections -> 1..Len(brfLines)] :
            /\ \A n \in DOMAIN brf.Sections :
                  /\ f[n] + Len(brf.Sections[n]) <= Len(brfLines)
                  /\ brf.Sections[n]
                        = [j \in 1..Len(brf.Sections[n]) |-> brfLines[f[n] + j]]
                  /\ \A j \in RangeOf(brf.Sections, n, f[n]) :
                        /\ ~IsMarker(brfLines[j])
                        /\ \E q \in Markers : q < j
            /\ \A n1, n2 \in DOMAIN brf.Sections :
                  n1 # n2 =>
                      RangeOf(brf.Sections, n1, f[n1])
                          \cap RangeOf(brf.Sections, n2, f[n2]) = {}

\* C28: CreateBrf has run on an input with a line before the first marker
\* and two sections, one of them with a line
C28_Witness ==
    /\ pcBrf = "done"
    /\ Len(brfLines) >= 1
    /\ ~IsMarker(brfLines[1])
    /\ Cardinality(DOMAIN brf.Sections) = 2
    /\ \E n \in DOMAIN brf.Sections : Len(brf.Sections[n]) >= 1

-----------------------------------------------------------------------------
(* Properties of cmdline.Parser.Parse *)

\* the quote that is open before the character at position j of s
RECURSIVE QuoteBefore(_, _)
QuoteBefore(s, j) ==
    IF j = 1
    THEN NoQuote
    ELSE IF s[j - 1] \notin QuoteChars
    THEN QuoteBefore(s, j - 1)
    ELSE IF QuoteBefore(s, j - 1) = s[j - 1] THEN NoQuote ELSE s[j - 1]

\* a pipe outside quotes
IsPipeAt(s, j) == s[j] = "|" /\ QuoteBefore(s, j) = NoQuote

\* white space outside quotes
IsBlankAt(s, j) == s[j] \in {" ", "\t"} /\ QuoteBefore(s, j) = NoQuote

\* the character at j belongs to a token (quote characters delimit only)
IsTokenPos(s, j) == ~IsPipeAt(s, j) /\ ~IsBlankAt(s, j)

\* the token that starts at position j of the segment that ends at hi:
\* its characters up to the next separator, without the quote characters
TokenFrom(s, j, hi) ==
    LET e == CHOOSE x \in j..hi :
                 /\ \A y \in j..x : IsTokenPos(s, y)
                 /\ x = hi \/ ~IsTokenPos(s, x + 1)
        run == {y \in j..e : s[y] \notin QuoteChars}
        at == Ascending(run)
    IN  [x \in 1..Cardinality(run) |-> s[at[x]]]

\* the tokens of the segment lo..hi of s, in order; a token without a
\* character is none
SegmentTokens(s, lo, hi) ==
    LET starts == {j \in lo..hi :
                      /\ IsTokenPos(s, j)
                      /\ j = lo \/ ~IsTokenPos(s, j - 1)
                      /\ TokenFrom(s, j, hi) # <<>>}
        at == Ascending(starts)
    IN  [x \in 1..Cardinality(starts) |-> TokenFrom(s, at[x], hi)]

\* the command of a token sequence: its name and its arguments
CmdOfTokens(tokens) ==
    [CmdName |-> IF tokens = <<>> THEN <<>> ELSE tokens[1],
     Args    |-> [x \in 1..(Len(tokens) - 1) |-> tokens[x + 1]]]

\* one command per segment between the pipes outside quotes; the segment
\* behind the last pipe (the whole line when there is none) gives a
\* command only when it has a token
SegmentCmds(s) ==
    LET pipes == {j \in 1..Len(s) : IsPipeAt(s, j)}
        at == Ascending(pipes)
        n == Cardinality(pipes)
        lo(k) == IF k = 1 THEN 1 ELSE at[k - 1] + 1
        hi(k) == IF k = n + 1 THEN Len(s) ELSE at[k] - 1
        last == SegmentTokens(s, lo(n + 1), hi(n + 1))
        count == IF last = <<>> THEN n ELSE n + 1
    IN  [k \in 1..count |-> CmdOfTokens(SegmentTokens(s, lo(k), hi(k)))]

\* C21: Parse returns one command per segment between the pipes outside
\* quotes; name and arguments of a command are the tokens of its own
\* segment in order, white space inside quotes stays in the token, no
\* token has characters from both sides of a pipe, and the empty string
\* gives no command.
C21_OneCmdPerSegment ==
    pcParse = "done" => parseCmds = SegmentCmds(parseS)

-----------------------------------------------------------------------------
(* Properties of cmdline.Execute *)

\* C22: Execute leaves the working directory of the process as it found
\* it: with a workingDir, once Execute is left (with nil, with an error of
\* Getwd, Chdir, Start or Wait, or by a panic) and the change back did not
\* fail, the working directory is the one before the call; without a
\* workingDir the working directory is never changed.
C22_WorkingDirRestored ==
    /\ (pcExec = "done" /\ ~chdirBackErr) => cwd = cwdBefore
    /\ (pcExec # "idle" /\ workingDir = NoDir) => cwd = cwdBefore

\* C22: Execute has returned an error of a command after it changed to
\* another directory, and the directory is the old one again
C22_Witness ==
    /\ pcExec = "done"
    /\ execResult = "error"
    /\ externalRuns >= 1
    /\ workingDir \in Dirs
    /\ workingDir # cwdBefore
    /\ ~chdirBackErr

-----------------------------------------------------------------------------
(* Properties of PdfCommand.run and PreviewCommand.run *)

\* the file with time t is not newer than the existing .brf file: it is
\* missing, or its time is not after the .brf file's
NotNewerThanBrf(t) == brfTime # 0 /\ (t = 0 \/ t <= brfTime)

\* the positions in stages of the runs of a stage
RunsOf(stage) == {p \in 1..Len(stages) : stages[p].stage = stage}

\* C23: the build is staged.  The pdf command is executed only behind a
\* TeX generation that returned without error whenever the .tex file was
\* not newer than the .brf file, and PdfCommand.run then starts with that
\* generation; the previewer is launched only behind a successful run of
\* the pdf stage whenever the .pdf file was not newer than the .brf file;
\* a stage that fails is the last one that runs.
C23_StagedBuild ==
    /\ \A p \in RunsOf("pdf") :
          NotNewerThanBrf(texTimeBefore) =>
              p > 1 /\ stages[p - 1] = [stage |-> "tex", ok |-> TRUE]
    /\ \A p \in RunsOf("preview") :
          NotNewerThanBrf(pdfTimeBefore) =>
              p > 1 /\ stages[p - 1] = [stage |-> "pdf", ok |-> TRUE]
    /\ \A p \in 1..Len(stages) : ~stages[p].ok => p = Len(stages)
    /\ (pcBuild = "done" /\ topCmd = "pdf" /\ pdfCommandSet
          /\ NotNewerThanBrf(texTimeBefore))
          => (stages # <<>> /\ stages[1].stage = "tex")
    /\ (pcBuild = "done" /\ topCmd = "preview" /\ previewCommandSet
          /\ pdfCommandSet /\ NotNewerThanBrf(pdfTimeBefore))
          => (stages # <<>> /\ stages[1].stage \in {"tex", "pdf"})
    /\ Cardinality(RunsOf("tex")) <= 1 /\ Cardinality(RunsOf("pdf")) <= 1

\* C23: a preview has run all three stages for a .tex file as old as the
\* .brf file
C23_Witness ==
    /\ pcBuild = "done"
    /\ buildResult = "nil"
    /\ brfTime # 0
    /\ texTimeBefore = brfTime
    /\ Len(stages) = 3

-----------------------------------------------------------------------------
(* Properties of TexCommand.run *)

\* the section does not hold exactly one line with content
NotSingleValue(section) ==
    Cardinality({j \in 1..Len(section) : ~IsBlank(section[j])}) # 1

\* the line at p of the sender list is a field line: not blank, not a
\* comment, not the start of a record
SenderFieldLine(p) ==
    /\ ~IsBlank(senderList[p])
    /\ Core(senderList[p])[1] # "#"
    /\ ~HasPrefix(Core(senderList[p]), <<"a", "d", "d", "r", "e", "s", "s", ":">>)

\* the sender list has a field line before any record or without a colon
SenderListMalformed ==
    \E p \in 1..Len(senderList) :
        /\ SenderFieldLine(p)
        /\ \/ \A q \in 1..(p - 1) : IsBlank(senderList[q]) \/ SenderFieldLine(q)
              \/ Core(senderList[q])[1] = "#"
           \/ \A j \in 1..Len(senderList[p]) : senderList[p][j] # ":"

\* one of the inputs of run is not accepted
InputRejected ==
    \/ ~docReadable
    \/ NotSingleValue(templateSection)
    \/ NotSingleValue(fromSection)
    \/ ~templateReadable
    \/ ~senderListReadable
    \/ SenderListMalformed

\* C29: run touches the .tex file only after all input was accepted: when
\* the document is unreadable, TEMPLATE or FROM is not a single value, the
\* template cannot be read, or the address file is unreadable or
\* malformed, run returns an error and the file is as it was; and the file
\* is created only after the merged rendering context was built.
C29_OutputOnlyAfterInput ==
    /\ (pcTex = "done" /\ InputRejected) =>
          texResult = "error" /\ outFile = outFileBefore
    /\ outFile # outFileBefore => ctxBuilt

=============================================================================
